---------------------------- MODULE Spec2Model ----------------------------
(***************************************************************************)
(* Limbic-Memory backend (src/backend/main.py): the context budget         *)
(* enforcer, the tool-call loop, the consolidation (hippocampus) task and  *)
(* the streaming response pipeline of /chat/stream.                        *)
(*                                                                         *)
(* asyncio.CancelledError derives from BaseException from CPython 3.8 on   *)
(* and from Exception before; both interpreters are modelled where a       *)
(* cancelled task is joined.                                               *)
(***************************************************************************)
EXTENDS Integers, Sequences, FiniteSets, TLC

(***************************************************************************)
(* Bounds of the model.                                                    *)
(***************************************************************************)
MaxMsgs == 4
LenA == 10
LenB == 25
BudgetLow == 30
BudgetHigh == 60
MaxTurns == 1
MaxChunks == 2
MaxCands == 1
MaxCalls == 1
MaxLoopCfg == 1

(***************************************************************************)
(* Generic helpers.                                                        *)
(***************************************************************************)
RECURSIVE SumOver(_, _)
SumOver(S, f) ==
    IF S = {} THEN 0
    ELSE LET x == CHOOSE y \in S : TRUE IN f[x] + SumOver(S \ {x}, f)

SetMax(S) == CHOOSE x \in S : \A y \in S : y <= x

\* len(str(n)) for a non-negative integer n
RECURSIVE Digits(_)
Digits(n) == IF n < 10 THEN 1 ELSE 1 + Digits(n \div 10)

\* A configuration value read with dict.get: absent, or a JSON integer.
Absent == [set |-> FALSE, val |-> 0]
Given(n) == [set |-> TRUE, val |-> n]

\* int(cfg.get(key, d0) or d1): the value when present and truthy, d1 when
\* present and falsy (0), d0 (itself passed through `or d1`) when absent.
IntOr(c, d0, d1) ==
    LET got == IF c.set THEN c.val ELSE d0
    IN  IF got # 0 THEN got ELSE d1

(***************************************************************************)
(* enforce_context_budget (main.py 625-697).                               *)
(* A message is [id, role, len, raw, gap, cnt, chars]: len is              *)
(* len(content), raw the _injected_raw flag, gap the _compressed_gap flag, *)
(* cnt/chars the two numbers formatted into the marker's text.             *)
(***************************************************************************)
Msg(id, role, len, raw) ==
    [id |-> id, role |-> role, len |-> len, raw |-> raw, gap |-> FALSE,
     cnt |-> 0, chars |-> 0]

\* len(f"[记忆中间段已压缩 {n} 条 ~{c}字 已汇总于 background]")
SummaryTextLen(n, c) == 32 + Digits(n) + Digits(c)

compress_msg(n, c) ==
    [id |-> 0, role |-> "system", len |-> SummaryTextLen(n, c), raw |-> FALSE,
     gap |-> TRUE, cnt |-> n, chars |-> c]

IsDialog(m) == m.role \in {"user", "assistant"}

injected_indices(ms) == {i \in 1..Len(ms) : ms[i].raw}

\* The k smallest elements of a set of indices (injected_indices[:k]).
FirstK(S, k) == {i \in S : Cardinality({j \in S : j < i}) < k}

\* pin_first = max(0, min(int(cfg or 2), len(injected_indices)))
pin_first(ms, pinCfg) ==
    LET p == IntOr(pinCfg, 2, 2)
        n == Cardinality(injected_indices(ms))
        lo == IF p < n THEN p ELSE n
    IN  IF lo > 0 THEN lo ELSE 0

pinned_set(ms, pinCfg) == FirstK(injected_indices(ms), pin_first(ms, pinCfg))

per_index_len(ms) == [i \in 1..Len(ms) |-> IF IsDialog(ms[i]) THEN ms[i].len ELSE 0]

total_chars(ms) == SumOver(1..Len(ms), per_index_len(ms))

SystemIndices(ms) == {i \in 1..Len(ms) : ms[i].role = "system"}

\* keep_set before the backward scan: the pinned indices and every system
\* message (lines 652-660).
KeepSeedNoPin(ms, pinCfg) == SystemIndices(ms)

KeepSeed(ms, pinCfg) == pinned_set(ms, pinCfg) \cup SystemIndices(ms)

\* running before the backward scan: the system messages' lengths only.
RunningSeed(ms) ==
    SumOver(SystemIndices(ms), [i \in 1..Len(ms) |-> ms[i].len])

\* The backward scan of lines 662-673, from index i down to 1.
RECURSIVE ScanBack(_, _, _, _, _)
ScanBack(ms, i, keep, running, budget) ==
    IF i = 0 THEN keep
    ELSE IF i \in keep THEN ScanBack(ms, i - 1, keep, running, budget)
    ELSE IF IsDialog(ms[i])
         THEN IF running + ms[i].len > budget
              THEN ScanBack(ms, i - 1, keep, running, budget)
              ELSE ScanBack(ms, i - 1, keep \cup {i}, running + ms[i].len, budget)
         ELSE ScanBack(ms, i - 1, keep \cup {i}, running, budget)

keep_set(ms, budget, pinCfg) ==
    ScanBack(ms, Len(ms), KeepSeed(ms, pinCfg), RunningSeed(ms), budget)

removed_indices(ms, budget, pinCfg) ==
    injected_indices(ms) \ keep_set(ms, budget, pinCfg)

\* The rebuild loop with the marker put in front of the list.
RECURSIVE RebuildMarkerFirst(_, _, _, _, _)
RebuildMarkerFirst(ms, idx, pos, removed, marker) ==
    IF idx > Len(ms) THEN <<>>
    ELSE (IF idx = 1 THEN <<marker>> ELSE <<>>)
         \o (IF idx \in removed THEN <<>> ELSE <<ms[idx]>>)
         \o RebuildMarkerFirst(ms, idx + 1, pos, removed, marker)

\* The rebuild loop of lines 686-692.
RECURSIVE Rebuild(_, _, _, _, _)
Rebuild(ms, idx, pos, removed, marker) ==
    IF idx > Len(ms) THEN <<>>
    ELSE (IF idx = pos THEN <<marker>> ELSE <<>>)
         \o (IF idx \in removed THEN <<>> ELSE <<ms[idx]>>)
         \o Rebuild(ms, idx + 1, pos, removed, marker)

\* enforce_context_budget without the test of lines 647-649
enforce_without_total_test(ms, budgetCfg, pinCfg) ==
    LET budget == IntOr(budgetCfg, 0, 0)
    IN  IF budget <= 0 THEN ms
        ELSE IF injected_indices(ms) = {} THEN ms
        ELSE LET removed == removed_indices(ms, budget, pinCfg)
                 pinned == pinned_set(ms, pinCfg)
             IN  IF removed = {} THEN ms
                 ELSE LET removed_chars == SumOver(removed, per_index_len(ms))
                          first_insert_pos ==
                              IF pinned # {} THEN SetMax(pinned) + 1 ELSE 1
                      IN  Rebuild(ms, 1, first_insert_pos, removed,
                                  compress_msg(Cardinality(removed), removed_chars))

enforce_context_budget(ms, budgetCfg, pinCfg) ==
    LET budget_chars == IntOr(budgetCfg, 0, 0)
    IN  IF budget_chars <= 0 THEN ms
        ELSE IF injected_indices(ms) = {} THEN ms
        ELSE IF total_chars(ms) <= budget_chars THEN ms
        ELSE LET removed == removed_indices(ms, budget_chars, pinCfg)
                 pinned == pinned_set(ms, pinCfg)
             IN  IF removed = {} THEN ms
                 ELSE LET removed_chars == SumOver(removed, per_index_len(ms))
                          first_insert_pos ==
                              IF pinned # {} THEN SetMax(pinned) + 1 ELSE 1
                      IN  Rebuild(ms, 1, first_insert_pos, removed,
                                  compress_msg(Cardinality(removed), removed_chars))

(***************************************************************************)
(* Texts.  A text is a sequence of characters of a small alphabet:         *)
(*   "j1" "j2"  the two halves of the inline tool-call text                *)
(*              {"name":"memory_recall","arguments":{"query":"x"}}         *)
(*   "s"        a whitespace character                                     *)
(*   any other  ordinary text                                              *)
(* All texts of the model are far shorter than the 600 characters of the   *)
(* `len(snippet) < 600` test (line 960).                                   *)
(***************************************************************************)
InlineText == <<"j1", "j2">>

RECURSIVE LStrip(_)
LStrip(t) == IF t # <<>> /\ Head(t) = "s" THEN LStrip(Tail(t)) ELSE t

RECURSIVE RStrip(_)
RStrip(t) ==
    IF t # <<>> /\ t[Len(t)] = "s" THEN RStrip(SubSeq(t, 1, Len(t) - 1)) ELSE t

\* str.strip()
Strip(t) == RStrip(LStrip(t))

IsPrefix(a, b) == Len(a) <= Len(b) /\ SubSeq(b, 1, Len(a)) = a

\* _try_parse_inline_tool (lines 410-421): the pattern allows leading
\* whitespace and json.loads accepts surrounding whitespace only, so the
\* content parses exactly when it is the tool-call text and nothing else.
try_parse_inline_tool(content) == content # <<>> /\ Strip(content) = InlineText

UserChar(t) == CASE t = 1 -> "u1" [] t = 2 -> "u2" [] t = 3 -> "u3" [] OTHER -> "un"

KwChar(t) == CASE t = 1 -> "k1" [] t = 2 -> "k2" [] t = 3 -> "k3" [] OTHER -> "kn"

\* a user message of turn t without / with one of the keywords of line 767
UserText(t) == <<UserChar(t)>>
KwText(t) == <<KwChar(t)>>

\* re.search(r"(喜欢|爱|目标|想要|想做|计划|习惯|偏好)", text)
HasKeyword(text) == \E i \in 1..Len(text) : text[i] \in {"k1", "k2", "k3", "kn"}

(***************************************************************************)
(* Session memory document (lines 142-159) and its entries.                *)
(***************************************************************************)
DefaultDoc == [raw_history |-> <<>>, background |-> ""]

\* no document: what a caller holds when the load raised
NoDoc == [raw_history |-> <<>>, background |-> "<none>"]

Entry(role, content) == [role |-> role, content |-> content]

(***************************************************************************)
(* Consolidation reports (dicts returned by run_hippocampus_transform or   *)
(* built by chat_stream).  set: the dict is non-empty; error "<absent>":   *)
(* no error key; full: the keys background/ltm_written/ltm_candidate_count *)
(* are present.                                                            *)
(***************************************************************************)
NoReport ==
    [set |-> FALSE, enabled |-> FALSE, error |-> "<absent>", full |-> FALSE,
     background |-> "", ltm_written |-> <<>>, ltm_candidate_count |-> 0]

ErrorReport(enabled, err) ==
    [set |-> TRUE, enabled |-> enabled, error |-> err, full |-> FALSE,
     background |-> "", ltm_written |-> <<>>, ltm_candidate_count |-> 0]

FullReport(bg, written, count) ==
    [set |-> TRUE, enabled |-> TRUE, error |-> "<absent>", full |-> TRUE,
     background |-> bg, ltm_written |-> written, ltm_candidate_count |-> count]

(***************************************************************************)
(* Long-term memory tools (lines 373-400).  env is what the collaborators  *)
(* do during the call: "ok", "embed_fail" (embed_texts falls back to zero  *)
(* vectors and the add succeeds) or "store_fail" (get_chroma / coll.add /  *)
(* coll.query raises).                                                     *)
(***************************************************************************)
ToolEnvs == {"ok", "embed_fail", "store_fail"}

embed_texts(text, env) == IF env = "embed_fail" THEN <<"zero">> ELSE text

\* memory.top_k when the configuration and the call give none (line 387)
DefaultTopK == 5

\* A tool result: error (the dict carries an error key), id (of the stored
\* entry) and count (the number of entries a recall returns).
ToolResult(error, id, count) == [error |-> error, id |-> id, count |-> count]

\* tool_memory_store writing over the newest entry instead of adding one
tool_memory_store_overwrites(store, id, text, env) ==
    IF env = "store_fail"
    THEN [result |-> ToolResult(TRUE, 0, 0), ltm |-> store]
    ELSE LET e == [id |-> id, text |-> text, vec |-> embed_texts(text, env)]
         IN  [result |-> ToolResult(FALSE, id, 0),
              ltm |-> IF store = <<>> THEN <<e>>
                      ELSE [store EXCEPT ![Len(store)] = e]]

\* tool_memory_store: [result, ltm]
tool_memory_store(store, id, text, env) ==
    IF env = "store_fail"
    THEN [result |-> ToolResult(TRUE, 0, 0), ltm |-> store]
    ELSE [result |-> ToolResult(FALSE, id, 0),
          ltm |-> Append(store, [id |-> id, text |-> text,
                                 vec |-> embed_texts(text, env)])]

\* tool_memory_recall: the collection is only queried; it returns its k
\* nearest entries, all of them when it holds fewer
tool_memory_recall(store, query, env) ==
    IF env = "store_fail"
    THEN [result |-> ToolResult(TRUE, 0, 0), ltm |-> store]
    ELSE [result |-> ToolResult(FALSE, 0, IF Len(store) < DefaultTopK
                                           THEN Len(store) ELSE DefaultTopK),
          ltm |-> store]

(***************************************************************************)
(* Messages of the per-request list msgs.                                  *)
(***************************************************************************)
PMsg(role, content) ==
    [role |-> role, content |-> content, raw |-> FALSE, tool_calls |-> <<>>,
     tool_call_id |-> 0]

InjectedMsg(e) ==
    [role |-> e.role, content |-> e.content, raw |-> TRUE, tool_calls |-> <<>>,
     tool_call_id |-> 0]

CallMsg(content, calls) ==
    [role |-> "assistant", content |-> content, raw |-> FALSE,
     tool_calls |-> calls, tool_call_id |-> 0]

ToolMsg(id, content) ==
    [role |-> "tool", content |-> content, raw |-> FALSE, tool_calls |-> <<>>,
     tool_call_id |-> id]

RECURSIVE MapInjected(_)
MapInjected(sq) ==
    IF sq = <<>> THEN <<>> ELSE <<InjectedMsg(Head(sq))>> \o MapInjected(Tail(sq))

\* lines 566-600: the raw history entries not already among body.messages,
\* then the tool instruction, then body.messages
AssembleMsgs(doc, body_msgs, tools) ==
    LET Keep(e) ==
            /\ e.role \in {"user", "assistant"}
            /\ e.content # <<>>
            /\ \A i \in 1..Len(body_msgs) :
                 ~(body_msgs[i].role = e.role /\ body_msgs[i].content = e.content)
    IN  MapInjected(SelectSeq(doc.raw_history, Keep))
        \o (IF tools THEN <<PMsg("system", <<"tool_instruction">>)>> ELSE <<>>)
        \o body_msgs

\* the content of the last user message with content, "" when there is none
RECURSIVE LatestUser(_)
LatestUser(ms) ==
    IF ms = <<>> THEN <<>>
    ELSE LET m == ms[Len(ms)]
         IN  IF m.role = "user" /\ m.content # <<>> THEN m.content
             ELSE LatestUser(SubSeq(ms, 1, Len(ms) - 1))

\* memory.max_tool_loops as found in config.json
CfgAbsent == [kind |-> "absent", n |-> 0, s |-> <<>>]
CfgNull == [kind |-> "null", n |-> 0, s |-> <<>>]
CfgBool == [kind |-> "bool", n |-> 1, s |-> <<>>]
CfgInt(n) == [kind |-> "int", n |-> n, s |-> <<>>]
CfgFloat(n) == [kind |-> "float", n |-> n, s |-> <<>>]
CfgStr(str) == [kind |-> "str", n |-> 0, s |-> str]

(***************************************************************************)
(* State.                                                                  *)
(***************************************************************************)
VARIABLES
    messages,       \* the list handed to enforce_context_budget
    budget_cfg,     \* hippocampus.inject_char_budget
    pin_cfg,        \* hippocampus.inject_pin_first
    enforced,       \* enforce_context_budget(messages)
    enforced2,      \* enforce_context_budget(enforced)
    bphase,         \* "build" | "once" | "twice"
    file,           \* SHORT_MEM_FILE: the persisted session memory document
    ltm,            \* the vector collection: sequence of [id, text, vec]
    next_id,        \* the next uuid4
    turn,           \* number of /chat/stream requests started
    pc,             \* where chat_stream / gen of the current request stands
    body,           \* the ChatRequest: [text, tools]
    msgs,           \* chat_stream's message list
    loop,           \* run_tool_iteration: [idx, loops, executed]
    executed_steps, \* chat_stream's executed_steps
    hippocampus_report,
    task,           \* hippocampus_task (run_hippocampus_transform)
    out,            \* the lines gen() has yielded
    gen,            \* gen's locals: got_any, buffer_first, assistant_output_buf,
                    \* inline_intercept_used, chunks
    hist,           \* history of the run, for stating properties
    probe           \* a direct call of a memory tool or of embed_texts and its outcome

bvars == <<messages, budget_cfg, pin_cfg, enforced, enforced2, bphase>>
req_vars == <<turn, pc, body, msgs, loop, executed_steps, hippocampus_report>>
pvars == <<file, ltm, next_id, turn, pc, body, msgs, loop, executed_steps,
           hippocampus_report, task, out, gen, hist>>

vars == <<messages, budget_cfg, pin_cfg, enforced, enforced2, bphase,
          file, ltm, next_id, turn, pc, body, msgs, loop, executed_steps,
          hippocampus_report, task, out, gen, hist, probe>>

NoTask ==
    [pc |-> "none", sm |-> DefaultDoc, cands |-> <<>>, idx |-> 0,
     background_new |-> "", written |-> <<>>, raised |-> FALSE,
     result |-> NoReport]

NoLoop ==
    [idx |-> 0, loops |-> 0, executed |-> <<>>, cfg |-> CfgAbsent, calls |-> 0,
     raised |-> FALSE, stub |-> TRUE]

GenInit ==
    [got_any |-> FALSE, buffer_first |-> <<>>, assistant_output_buf |-> <<>>,
     inline_intercept_used |-> FALSE, chunks |-> 0, chunks2 |-> 0]

HistInit ==
    [users |-> 0, assts |-> 0, timed_out |-> FALSE, primary |-> <<>>,
     answer |-> <<>>, intercepts |-> 0, second_streams |-> 0,
     trouble |-> FALSE, llm_done |-> FALSE, doc0 |-> DefaultDoc,
     closing |-> FALSE, disconnected |-> FALSE, path |-> "",
     force_recall |-> FALSE, q_max |-> Absent, auto_query |-> <<>>,
     auto_store |-> <<>>, closing_text |-> <<>>, hip_unparsed |-> "",
     compression_off |-> FALSE, disk |-> "ok"]

\* What the file system does to SHORT_MEM_FILE during a run: nothing, every
\* read of it fails (unreadable or not JSON), or the writes of the
\* consolidation task, or those of the assistant-history append, fail.
DiskModes == {"ok", "load_fail", "task_save_fail", "append_save_fail"}

\* _load_short_mem re-raising what the read raises: the caller's except
\* takes over and nothing is loaded
load_short_mem_raises(doc) == IF hist.disk = "load_fail" THEN NoDoc ELSE doc

\* _load_short_mem (lines 142-154) on a file holding doc
load_short_mem(doc) == IF hist.disk = "load_fail" THEN DefaultDoc ELSE doc

\* _save_short_mem (lines 156-159) raises in the consolidation task
TaskSaveRaises == hist.disk = "task_save_fail"

\* _save_short_mem raises in the append of lines 1026-1035
AppendSaveRaises == hist.disk = "append_save_fail"

PipelineIdleOn(doc, disk) ==
    /\ file = doc
    /\ ltm = <<>>
    /\ next_id = 1
    /\ turn = 0
    /\ pc = "idle"
    /\ body = [text |-> <<>>, tools |-> FALSE]
    /\ msgs = <<>>
    /\ loop = NoLoop
    /\ executed_steps = <<>>
    /\ hippocampus_report = NoReport
    /\ task = NoTask
    /\ out = <<>>
    /\ gen = GenInit
    /\ hist = [HistInit EXCEPT !.disk = disk]

PipelineIdle(doc) == PipelineIdleOn(doc, "ok")

NoProbe ==
    [op |-> "none", text |-> <<>>, id |-> 0, env |-> "ok", env2 |-> "ok",
     results |-> {}, n |-> 0, cfg |-> CfgAbsent, raised |-> FALSE,
     vectors |-> <<>>]

ProbeIdle == probe = NoProbe

BudgetIdle ==
    /\ messages = <<>>
    /\ budget_cfg = Absent
    /\ pin_cfg = Absent
    /\ enforced = <<>>
    /\ enforced2 = <<>>
    /\ bphase = "build"

(***************************************************************************)
(* SpecBudget: enforce_context_budget applied to bounded message lists.    *)
(***************************************************************************)
BudgetCfgs == {Absent, Given(0 - BudgetLow), Given(BudgetLow), Given(BudgetHigh)}
PinCfgs == {Absent, Given(-1), Given(0), Given(1)}

MsgKinds ==
    {<<"system", LenA, FALSE>>, <<"user", LenA, TRUE>>, <<"user", LenB, TRUE>>,
     <<"assistant", LenB, TRUE>>, <<"user", LenB, FALSE>>, <<"tool", LenA, FALSE>>}

InitBudget ==
    /\ messages = <<>>
    /\ budget_cfg \in BudgetCfgs
    /\ pin_cfg \in PinCfgs
    /\ enforced = <<>>
    /\ enforced2 = <<>>
    /\ bphase = "build"
    /\ PipelineIdle(DefaultDoc)
    /\ ProbeIdle

\* chat_stream appends one more message to msgs (lines 560-600).
BuildMsg ==
    /\ bphase = "build"
    /\ Len(messages) < MaxMsgs
    /\ \E k \in MsgKinds :
         messages' = Append(messages, Msg(Len(messages) + 1, k[1], k[2], k[3]))
    /\ UNCHANGED <<budget_cfg, pin_cfg, enforced, enforced2, bphase>>
    /\ UNCHANGED pvars
    /\ UNCHANGED probe

\* msgs = enforce_context_budget(msgs) (line 701)
Enforce ==
    /\ bphase = "build"
    /\ enforced' = enforce_context_budget(messages, budget_cfg, pin_cfg)
    /\ bphase' = "once"
    /\ UNCHANGED <<messages, budget_cfg, pin_cfg, enforced2>>
    /\ UNCHANGED pvars
    /\ UNCHANGED probe

\* the enforcer applied to its own output
EnforceAgain ==
    /\ bphase = "once"
    /\ enforced2' = enforce_context_budget(enforced, budget_cfg, pin_cfg)
    /\ bphase' = "twice"
    /\ UNCHANGED <<messages, budget_cfg, pin_cfg, enforced>>
    /\ UNCHANGED pvars
    /\ UNCHANGED probe

NextBudget == BuildMsg \/ Enforce \/ EnforceAgain

SpecBudget == InitBudget /\ [][NextBudget]_vars

(***************************************************************************)
(* chat_stream, request start (lines 533-721).                             *)
(* Turns are modelled with enable_context_budget unset (the default of     *)
(* line 700), so msgs is forwarded untrimmed; the enforcer itself is       *)
(* explored under SpecBudget.                                              *)
(***************************************************************************)
\* the latest user message of the request of turn t: absent, a plain text, or
\* a text that matches the keyword pattern of line 767 (used with the tools)
Bodies(t) ==
    {[text |-> <<>>, tools |-> FALSE], [text |-> <<>>, tools |-> TRUE],
     [text |-> UserText(t), tools |-> FALSE], [text |-> UserText(t), tools |-> TRUE],
     [text |-> KwText(t), tools |-> TRUE]}

TaskFinished == task.pc \in {"none", "done", "cancelled"}

RequestOver == pc \in {"idle", "done", "crashed", "rejected"}

\* non-empty answer text was streamed to the client in the current request
Answered == Strip(hist.answer) # <<>>

\* chat_stream with the consolidation task created before lines 539-543
StartTurnTaskFirst ==
    /\ RequestOver
    /\ TaskFinished
    /\ turn < MaxTurns
    /\ turn' = turn + 1
    /\ out' = <<>>
    /\ gen' = GenInit
    /\ executed_steps' = <<>>
    /\ loop' = NoLoop
    /\ \E chat_ok \in BOOLEAN, b \in Bodies(turn + 1) :
         LET text == b.text
             settled == [hist EXCEPT !.assts = @ + (IF Answered THEN 1 ELSE 0),
                                     !.timed_out = FALSE, !.primary = <<>>,
                                     !.answer = <<>>, !.intercepts = 0,
                                     !.second_streams = 0, !.trouble = FALSE,
                                     !.llm_done = FALSE, !.doc0 = file,
                                     !.hip_unparsed = "",
                                     !.compression_off = FALSE,
                                     !.closing = FALSE, !.disconnected = FALSE,
                                     !.path = ""]
         IN  /\ body' = b
             /\ IF ~chat_ok
                THEN \* get_chat_client raised: JSONResponse 500 (lines 539-543)
                     /\ pc' = "rejected"
                     /\ msgs' = <<>>
                     /\ task' = IF text # <<>>
                                THEN [NoTask EXCEPT !.pc = "created"]
                                ELSE NoTask
                     /\ hippocampus_report' = NoReport
                     /\ hist' = settled
                ELSE /\ msgs' = AssembleMsgs(load_short_mem(file), <<PMsg("user", text)>>,
                                          b.tools)
                     /\ task' = IF text # <<>>
                                THEN [NoTask EXCEPT !.pc = "created"]
                                ELSE NoTask
                     /\ hippocampus_report' =
                            IF text # <<>> THEN NoReport
                            ELSE ErrorReport(FALSE, "no_latest_user_message")
                     /\ pc' = IF b.tools THEN "tools" ELSE "gen"
                     /\ hist' = [settled EXCEPT
                                   !.users = @ + (IF text # <<>> THEN 1 ELSE 0)]
    /\ UNCHANGED <<file, ltm, next_id>>
    /\ UNCHANGED bvars
    /\ UNCHANGED probe

StartTurn ==
    /\ RequestOver
    /\ TaskFinished
    /\ turn < MaxTurns
    /\ turn' = turn + 1
    /\ out' = <<>>
    /\ gen' = GenInit
    /\ executed_steps' = <<>>
    /\ loop' = NoLoop
    /\ \E chat_ok \in BOOLEAN, b \in Bodies(turn + 1) :
         LET text == b.text
             settled == [hist EXCEPT !.assts = @ + (IF Answered THEN 1 ELSE 0),
                                     !.timed_out = FALSE, !.primary = <<>>,
                                     !.answer = <<>>, !.intercepts = 0,
                                     !.second_streams = 0, !.trouble = FALSE,
                                     !.llm_done = FALSE, !.doc0 = file,
                                     !.hip_unparsed = "",
                                     !.compression_off = FALSE,
                                     !.closing = FALSE, !.disconnected = FALSE,
                                     !.path = ""]
         IN  /\ body' = b
             /\ IF ~chat_ok
                THEN \* get_chat_client raised: JSONResponse 500 (lines 539-543)
                     /\ pc' = "rejected"
                     /\ msgs' = <<>>
                     /\ task' = NoTask
                     /\ hippocampus_report' = NoReport
                     /\ hist' = settled
                ELSE /\ msgs' = AssembleMsgs(load_short_mem(file), <<PMsg("user", text)>>,
                                          b.tools)
                     /\ task' = IF text # <<>>
                                THEN [NoTask EXCEPT !.pc = "created"]
                                ELSE NoTask
                     /\ hippocampus_report' =
                            IF text # <<>> THEN NoReport
                            ELSE ErrorReport(FALSE, "no_latest_user_message")
                     /\ pc' = IF b.tools THEN "tools" ELSE "gen"
                     /\ hist' = [settled EXCEPT
                                   !.users = @ + (IF text # <<>> THEN 1 ELSE 0)]
    /\ UNCHANGED <<file, ltm, next_id>>
    /\ UNCHANGED bvars
    /\ UNCHANGED probe

(***************************************************************************)
(* run_hippocampus_transform (lines 188-285), one action per stretch of    *)
(* code between two awaits.                                                *)
(***************************************************************************)
HipModes == {"no_client", "no_compress", "compress"}

\* The hippocampus section of config.json: whether a usable api_key is set
\* (lines 96-98), the value of enable_compression (default True, line 205)
\* and whether a non-empty compression_prompt is set (line 206).  A missing
\* section has no key, no prompt and the default.
HipCfgs ==
    [api_key : BOOLEAN, enable_compression : BOOLEAN, compression_prompt : BOOLEAN]

\* line 224, to_prune being always empty (line 208)
compression_skipped(cfg) == ~cfg.enable_compression \/ ~cfg.compression_prompt

\* the path run_hippocampus_transform takes under cfg (lines 197-227)
hip_mode(cfg) ==
    IF ~cfg.api_key THEN "no_client"
    ELSE IF compression_skipped(cfg) THEN "no_compress"
    ELSE "compress"

CandKinds == {"good", "blank", "nonstr"}

RECURSIVE SeqsUpTo(_, _)
SeqsUpTo(S, n) ==
    IF n = 0 THEN {<<>>}
    ELSE LET shorter == SeqsUpTo(S, n - 1)
         IN  shorter \cup {Append(q, x) : q \in shorter, x \in S}

CandLists == SeqsUpTo(CandKinds, MaxCands)

\* the shape of the returned content: a fenced json block (line 248), a bare
\* top-level object (line 254), or neither ("plain": any other text, or none)
HipShapes == {"plain", "fenced", "bare"}

\* what the consolidation model call does: raises, or returns content that
\* does not parse to an object (it has neither shape, or json.loads fails
\* on it), or an object with or without a string background and with a
\* list of candidates
HipResponses ==
    {[kind |-> "raise", shape |-> "plain", bg |-> FALSE, cands |-> <<>>]}
    \cup {[kind |-> "unparsed", shape |-> s, bg |-> FALSE, cands |-> <<>>] :
            s \in HipShapes}
    \cup {[kind |-> "object", shape |-> s, bg |-> b, cands |-> c] :
            s \in {"fenced", "bare"}, b \in BOOLEAN, c \in CandLists}

BgChar(t) == CASE t = 1 -> "bg1" [] t = 2 -> "bg2" [] t = 3 -> "bg3" [] OTHER -> "bgn"

CandChar(i) == CASE i = 1 -> "c1" [] i = 2 -> "c2" [] OTHER -> "cn"

\* cand.strip() of the i-th candidate
CandText(i) == <<CandChar(i)>>

\* the first index >= i of a candidate that is a non-blank string, 0 if none
RECURSIVE NextGood(_, _)
NextGood(cands, i) ==
    IF i > Len(cands) THEN 0
    ELSE IF cands[i] = "good" THEN i ELSE NextGood(cands, i + 1)

\* lines 275-285 without line 275: the document keeps its old background
TaskReturnOldBackground(t) ==
    [t EXCEPT !.pc = "done",
              !.result = FullReport(t.background_new, t.written, Len(t.cands))]

\* lines 275-285: store background, save, return the report
TaskReturn(t) ==
    LET sm == [t.sm EXCEPT !.background = t.background_new]
    IN  IF TaskSaveRaises
        THEN [t EXCEPT !.pc = "done", !.sm = sm, !.raised = TRUE]
        ELSE [t EXCEPT !.pc = "done", !.sm = sm,
                       !.result = FullReport(t.background_new, t.written,
                                             Len(t.cands))]

\* the candidate loop of lines 266-273 from index i on, up to its next await
TaskCandidates(t, i) ==
    IF NextGood(t.cands, i) = 0 THEN TaskReturn(t)
    ELSE [t EXCEPT !.pc = "embed", !.idx = NextGood(t.cands, i)]

\* lines 197-235: up to the consolidation model call
TaskStart ==
    /\ task.pc = "created"
    /\ \E cfg \in HipCfgs :
         LET mode == hip_mode(cfg)
             sm == [load_short_mem(file) EXCEPT
                      !.raw_history = Append(@, Entry("user", body.text))]
         IN  /\ mode \in HipModes
             /\ hist' = [hist EXCEPT !.compression_off = compression_skipped(cfg)]
             /\ CASE mode = "no_client" ->
                    /\ task' = [task EXCEPT !.pc = "done",
                                            !.result = ErrorReport(FALSE, "<absent>")]
                    /\ file' = file
               [] mode = "no_compress" ->
                    IF TaskSaveRaises
                    THEN /\ task' = [task EXCEPT !.pc = "done", !.sm = sm,
                                                 !.raised = TRUE]
                         /\ file' = file
                    ELSE /\ task' = [task EXCEPT !.pc = "done", !.sm = sm,
                                       !.result = FullReport(sm.background, <<>>, 0)]
                         /\ file' = sm
               [] mode = "compress" ->
                    /\ task' = [task EXCEPT !.pc = "llm", !.sm = sm,
                                            !.background_new = sm.background]
                    /\ file' = file
    /\ UNCHANGED <<ltm, next_id, out, gen>>
    /\ UNCHANGED req_vars
    /\ UNCHANGED bvars
    /\ UNCHANGED probe

\* line 261 falling back to the empty string instead of sm's background
background_or_empty(resp, sm) ==
    IF resp.kind = "object" /\ resp.bg THEN BgChar(turn) ELSE ""

\* line 261: the parsed background if it is a string, else sm's background
background_new_of(resp, sm) ==
    IF resp.kind = "object" /\ resp.bg THEN BgChar(turn) ELSE sm.background

\* lines 235-263: the model call returns or raises
TaskModelReturn ==
    /\ task.pc = "llm"
    /\ \E resp \in HipResponses :
         IF resp.kind = "raise"
         THEN /\ task' = [task EXCEPT !.pc = "done",
                                      !.result = ErrorReport(TRUE, "exception")]
              /\ file' = file
              /\ hist' = [hist EXCEPT !.llm_done = TRUE]
         ELSE LET t1 == [task EXCEPT
                           !.background_new = background_new_of(resp, task.sm),
                           !.cands = resp.cands]
                  t2 == TaskCandidates(t1, 1)
              IN  /\ task' = t2
                  /\ file' = IF t2.pc = "done" /\ ~t2.raised THEN t2.sm ELSE file
                  /\ hist' = [hist EXCEPT
                                !.llm_done = TRUE,
                                !.hip_unparsed = IF resp.kind = "unparsed"
                                                 THEN resp.shape ELSE ""]
    /\ UNCHANGED <<ltm, next_id, out, gen>>
    /\ UNCHANGED req_vars
    /\ UNCHANGED bvars
    /\ UNCHANGED probe

\* lines 270-277: tool_memory_store returns for candidate task.idx
TaskStoreReturn ==
    /\ task.pc = "embed"
    /\ \E env \in ToolEnvs :
         LET r == tool_memory_store(ltm, next_id, CandText(task.idx), env)
             t1 == [task EXCEPT
                      !.written = Append(@, [text |-> CandText(task.idx),
                                             id |-> r.result.id,
                                             error |-> "<absent>"])]
             t2 == TaskCandidates(t1, task.idx + 1)
         IN  /\ ltm' = r.ltm
             /\ next_id' = IF r.result.error THEN next_id ELSE next_id + 1
             /\ task' = t2
             /\ file' = IF t2.pc = "done" /\ ~t2.raised THEN t2.sm ELSE file
    /\ UNCHANGED <<out, gen, hist>>
    /\ UNCHANGED req_vars
    /\ UNCHANGED bvars
    /\ UNCHANGED probe

(***************************************************************************)
(* run_tool_iteration (lines 423-519).                                     *)
(***************************************************************************)
HardCap == 30
DefaultLoops == 8

\* Characters of a configured string: ASCII decimal digits, "sup2" (U+00B2,
\* for which str.isdigit() is true and int() raises ValueError), "-", ".".
DecimalValue(c) ==
    CASE c = "0" -> 0 [] c = "1" -> 1 [] c = "2" -> 2 [] c = "3" -> 3 [] OTHER -> -1

IsDecimalChar(c) == DecimalValue(c) >= 0

IsDigitChar(c) == IsDecimalChar(c) \/ c = "sup2"

\* str.isdigit()
isdigit(str) == str # <<>> /\ \A i \in 1..Len(str) : IsDigitChar(str[i])

RECURSIVE ParseDecimal(_, _)
ParseDecimal(str, acc) ==
    IF str = <<>> THEN acc
    ELSE ParseDecimal(Tail(str), 10 * acc + DecimalValue(Head(str)))

Min(a, b) == IF a < b THEN a ELSE b

\* lines 427-429: [raised, loops]
max_tool_loops(c) ==
    LET usable ==
            \/ c.kind = "absent"
            \/ c.kind = "int" /\ c.n >= 0
            \/ c.kind = "str" /\ isdigit(c.s)
    IN  IF ~usable THEN [raised |-> FALSE, loops |-> Min(DefaultLoops, HardCap)]
        ELSE IF c.kind = "absent"
             THEN [raised |-> FALSE, loops |-> Min(DefaultLoops, HardCap)]
        ELSE IF c.kind = "int" THEN [raised |-> FALSE, loops |-> Min(c.n, HardCap)]
        ELSE IF \A i \in 1..Len(c.s) : IsDecimalChar(c.s[i])
             THEN [raised |-> FALSE, loops |-> Min(ParseDecimal(c.s, 0), HardCap)]
             ELSE [raised |-> TRUE, loops |-> 0]

\* A tool call as the model emits it: args is "ok" (a JSON object with the
\* tool's argument), "malformed" (not JSON) or "nonobject" (JSON, not an object)
ToolCall(name, args) == [name |-> name, args |-> args]

CountChar(n) ==
    CASE n = 0 -> "n0" [] n = 1 -> "n1" [] n = 2 -> "n2" [] n = 3 -> "n3"
      [] n = 4 -> "n4" [] OTHER -> "n5"

\* json.dumps(result): the content of a tool-role message, and the
\* result_preview of a step
ResultText(result) ==
    IF result.error THEN <<"error">> ELSE <<"result", CountChar(result.count)>>

Step(name, args, result) ==
    [name |-> name, arguments |-> args, error |-> result.error,
     result_preview |-> ResultText(result)]

\* the state threaded through one call of run_tool_iteration
LoopState(ms, ex, store, id) ==
    [msgs |-> ms, executed |-> ex, ltm |-> store, next_id |-> id, exc |-> FALSE,
     query |-> <<>>, candidate |-> <<>>]

\* lines 491-518 for one call tc (with its id), under env
ExecCall(st, tc, id, env) ==
    IF tc.args = "nonobject" /\ tc.name \in {"memory_store", "memory_recall"}
    THEN \* parsed.get raises AttributeError, which nothing here catches
         [st EXCEPT !.exc = TRUE]
    ELSE LET text == IF tc.args = "ok" THEN <<"t">> ELSE <<>>
             r == IF tc.name = "memory_store"
                  THEN tool_memory_store(st.ltm, st.next_id, text, env)
                  ELSE IF tc.name = "memory_recall"
                       THEN tool_memory_recall(st.ltm, text, env)
                       ELSE [result |-> ToolResult(TRUE, 0, 0), ltm |-> st.ltm]
         IN  [st EXCEPT
                !.ltm = r.ltm,
                !.next_id = IF Len(r.ltm) > Len(st.ltm) THEN @ + 1 ELSE @,
                !.executed = Append(@, Step(tc.name, tc.args, r.result)),
                !.msgs = Append(@, ToolMsg(id, ResultText(r.result)))]

\* the for loop of line 490 over calls[i..], ids[i..], envs[i..]
RECURSIVE ExecCalls(_, _, _, _, _)
ExecCalls(st, calls, ids, envs, i) ==
    IF i > Len(calls) \/ st.exc THEN st
    ELSE ExecCalls(ExecCall(st, calls[i], ids[i], envs[i]), calls, ids, envs, i + 1)

\* the tool_calls field of the assistant message (lines 456-477)
CallRefs(calls, ids) ==
    [i \in 1..Len(calls) |-> [id |-> ids[i], name |-> calls[i].name,
                               args |-> calls[i].args]]

\* A reply of the tool-planning model call: it raises, or returns a message
\* with text content and structured tool calls (either may be empty).
Raises == [kind |-> "raise", content |-> <<>>, calls |-> <<>>]
Reply(content, calls) == [kind |-> "msg", content |-> content, calls |-> calls]

\* one pass of the loop body after the model call returned resp (lines
\* 443-518); [st, go]: go is whether the loop continues
ToolIterationBody(st, resp, envs) ==
    LET inline_call == resp.calls = <<>> /\ try_parse_inline_tool(resp.content)
        calls == IF resp.calls # <<>> THEN resp.calls
                 ELSE <<ToolCall("memory_recall", "ok")>>
        ids == [i \in 1..Len(calls) |-> st.next_id + i - 1]
        st1 == [st EXCEPT
                  !.next_id = @ + Len(calls),
                  !.msgs = Append(@, CallMsg(IF resp.calls # <<>> THEN resp.content
                                             ELSE <<>>, CallRefs(calls, ids)))]
    IN  IF resp.calls # <<>> \/ inline_call
        THEN [st |-> ExecCalls(st1, calls, ids, envs, 1), go |-> TRUE]
        ELSE [st |-> IF resp.content # <<>>
                     THEN [st EXCEPT !.msgs = Append(@, PMsg("assistant", resp.content))]
                     ELSE st,
              go |-> FALSE]

\* run_tool_iteration is entered: lines 424-430
ToolLoopEnter(Cfgs) ==
    /\ pc = "tools"
    /\ \E c \in Cfgs :
         LET r == max_tool_loops(c)
         IN  /\ loop' = [NoLoop EXCEPT !.cfg = c, !.loops = r.loops,
                                       !.raised = r.raised]
             /\ pc' = IF r.raised THEN "gen"
                      ELSE IF r.loops = 0 THEN "backstops" ELSE "planning"
    /\ UNCHANGED <<turn, body, msgs, executed_steps, hippocampus_report>>
    /\ UNCHANGED <<file, ltm, next_id, task, out, gen, hist>>
    /\ UNCHANGED bvars
    /\ UNCHANGED probe

\* ToolIteration with the except of lines 440-442 re-raising: the exception
\* reaches line 815 and what the earlier iterations gathered is lost
ToolIterationReraises(Replies, Envs) ==
    /\ pc = "planning"
    /\ task.pc # "created"
    /\ \E resp \in Replies, envs \in [1..MaxCalls -> Envs] :
         /\ Len(resp.calls) <= MaxCalls
         /\ IF resp.kind = "raise"
            THEN /\ pc' = "gen"
                 /\ executed_steps' = executed_steps
                 /\ loop' = [loop EXCEPT !.calls = @ + 1, !.stub = FALSE,
                                         !.raised = TRUE]
                 /\ UNCHANGED <<msgs, ltm, next_id>>
            ELSE LET r == ToolIterationBody(
                              LoopState(msgs, loop.executed, ltm, next_id), resp, envs)
                     over == ~r.go \/ loop.idx + 1 = loop.loops
                 IN  /\ msgs' = r.st.msgs
                     /\ ltm' = r.st.ltm
                     /\ next_id' = r.st.next_id
                     /\ loop' = [loop EXCEPT !.calls = @ + 1, !.idx = @ + 1,
                                             !.executed = r.st.executed,
                                             !.raised = r.st.exc,
                                             !.stub = @ /\ r.go]
                     /\ pc' = IF r.st.exc THEN "gen"
                              ELSE IF over THEN "backstops" ELSE "planning"
                     /\ executed_steps' =
                            IF ~r.st.exc /\ over THEN r.st.executed ELSE executed_steps
    /\ UNCHANGED <<turn, body, hippocampus_report>>
    /\ UNCHANGED <<file, task, out, gen, hist>>
    /\ UNCHANGED bvars
    /\ UNCHANGED probe

\* one iteration of the loop of line 430: the planning call returns or raises
\* and the tool calls it asks for are executed
ToolIteration(Replies, Envs) ==
    /\ pc = "planning"
    /\ task.pc # "created"
    /\ \E resp \in Replies, envs \in [1..MaxCalls -> Envs] :
         /\ Len(resp.calls) <= MaxCalls
         /\ IF resp.kind = "raise"
            THEN /\ pc' = "backstops"
                 /\ executed_steps' = loop.executed
                 /\ loop' = [loop EXCEPT !.calls = @ + 1, !.stub = FALSE]
                 /\ UNCHANGED <<msgs, ltm, next_id>>
            ELSE LET r == ToolIterationBody(
                              LoopState(msgs, loop.executed, ltm, next_id), resp, envs)
                     over == ~r.go \/ loop.idx + 1 = loop.loops
                 IN  /\ msgs' = r.st.msgs
                     /\ ltm' = r.st.ltm
                     /\ next_id' = r.st.next_id
                     /\ loop' = [loop EXCEPT !.calls = @ + 1, !.idx = @ + 1,
                                             !.executed = r.st.executed,
                                             !.raised = r.st.exc,
                                             !.stub = @ /\ r.go]
                     /\ pc' = IF r.st.exc THEN "gen"
                              ELSE IF over THEN "backstops" ELSE "planning"
                     /\ executed_steps' =
                            IF ~r.st.exc /\ over THEN r.st.executed ELSE executed_steps
    /\ UNCHANGED <<turn, body, hippocampus_report>>
    /\ UNCHANGED <<file, task, out, gen, hist>>
    /\ UNCHANGED bvars
    /\ UNCHANGED probe

(***************************************************************************)
(* chat_stream after the loop (lines 726-814): the recall and store        *)
(* backstops and the forced closing reply.                                 *)
(***************************************************************************)
HasStep(steps, name) == \E i \in 1..Len(steps) : steps[i].name = name

\* the defaults of memory.auto_query_recall_query_max_chars (line 735) and
\* the length the stored candidate is cut to (line 770)
DefaultQueryChars == 800
StoreChars == 200

\* t[:n] for n >= 0
FirstN(t, n) == IF n < Len(t) THEN SubSeq(t, 1, n) ELSE t

\* t[-n:] for n # 0: the last n characters; for a negative n, t[|n|:]
LastN(t, n) ==
    IF n > 0 THEN (IF n < Len(t) THEN SubSeq(t, Len(t) - n + 1, Len(t)) ELSE t)
    ELSE SubSeq(t, 1 - n, Len(t))

\* q_max_chars = int(cfg_mem.get(..., 800) or 800) (line 735)
q_max_chars(c) == IntOr(c, DefaultQueryChars, DefaultQueryChars)

\* lines 738-743: the query made of the latest user message
user_query_of(ms, c) == LastN(Strip(LatestUser(ms)), q_max_chars(c))

\* lines 769-770: the candidate made of the latest user message
candidate_of(ms) == FirstN(Strip(LatestUser(ms)), StoreChars)

\* lines 733-756
AutoRecall(st, force_recall, q_max, env) ==
    LET user_query == user_query_of(st.msgs, q_max)
        r == tool_memory_recall(st.ltm, user_query, env)
        id == st.next_id
    IN  IF force_recall /\ ~HasStep(st.executed, "memory_recall")
           /\ Strip(user_query) # <<>>
        THEN [st EXCEPT
                !.query = user_query,
                !.next_id = @ + 1,
                !.executed = Append(@, Step("memory_recall (auto)", "ok", r.result)),
                !.msgs = @ \o <<CallMsg(<<>>, <<[id |-> id, name |-> "memory_recall",
                                                 args |-> "ok"]>>),
                                ToolMsg(id, ResultText(r.result))>>]
        ELSE st

\* lines 758-783 without the cut of line 770
HeuristicStoreUncut(st, env) ==
    LET latest_user == LatestUser(st.msgs)
        candidate == Strip(latest_user)
        r == tool_memory_store(st.ltm, st.next_id, candidate, env)
        id == IF r.result.error THEN st.next_id ELSE st.next_id + 1
    IN  IF ~HasStep(st.executed, "memory_store") /\ HasKeyword(latest_user)
           /\ candidate # <<>>
        THEN [st EXCEPT
                !.candidate = candidate,
                !.ltm = r.ltm,
                !.next_id = id + 1,
                !.executed = Append(@, Step("memory_store", "ok", r.result)),
                !.msgs = @ \o <<CallMsg(<<>>, <<[id |-> id, name |-> "memory_store",
                                                 args |-> "ok"]>>),
                                ToolMsg(id, ResultText(r.result))>>]
        ELSE st

\* lines 758-783
HeuristicStore(st, env) ==
    LET latest_user == LatestUser(st.msgs)
        candidate == candidate_of(st.msgs)
        r == tool_memory_store(st.ltm, st.next_id, candidate, env)
        id == IF r.result.error THEN st.next_id ELSE st.next_id + 1
    IN  IF ~HasStep(st.executed, "memory_store") /\ HasKeyword(latest_user)
           /\ candidate # <<>>
        THEN [st EXCEPT
                !.candidate = candidate,
                !.ltm = r.ltm,
                !.next_id = id + 1,
                !.executed = Append(@, Step("memory_store", "ok", r.result)),
                !.msgs = @ \o <<CallMsg(<<>>, <<[id |-> id, name |-> "memory_store",
                                                 args |-> "ok"]>>),
                                ToolMsg(id, ResultText(r.result))>>]
        ELSE st

\* lines 785-796
need_final(ms) ==
    /\ ms # <<>>
    /\ LET last == ms[Len(ms)]
       IN  \/ last.role = "tool"
           \/ last.role = "assistant" /\ Strip(last.content) = <<>>

\* lines 797-814 without the append of line 812
ClosingReplyDropsText(ms, fin) ==
    IF ~need_final(ms) THEN ms
    ELSE Append(ms, PMsg("system", <<"closing_instruction">>))

\* lines 797-814: fin is what the closing model call does
ClosingReply(ms, fin) ==
    IF ~need_final(ms) THEN ms
    ELSE Append(ms, PMsg("system", <<"closing_instruction">>))
         \o (IF fin = "text" THEN <<PMsg("assistant", <<"w">>)>> ELSE <<>>)

\* QMax: the values of memory.auto_query_recall_query_max_chars met
Backstops(Envs, QMax) ==
    /\ pc = "backstops"
    /\ \E force_recall \in BOOLEAN, q_max \in QMax, env_r \in Envs,
          env_s \in Envs, fin \in {"text", "empty", "raise"} :
         LET st0 == LoopState(msgs, executed_steps, ltm, next_id)
             st1 == AutoRecall(st0, force_recall, q_max, env_r)
             st2 == HeuristicStore(st1, env_s)
         IN  /\ msgs' = ClosingReply(st2.msgs, fin)
             /\ executed_steps' = st2.executed
             /\ ltm' = st2.ltm
             /\ next_id' = st2.next_id
             /\ hist' = [hist EXCEPT
                           !.closing = need_final(st2.msgs),
                           !.force_recall = force_recall,
                           !.q_max = q_max,
                           !.auto_query = st2.query,
                           !.auto_store = st2.candidate,
                           !.closing_text =
                               IF need_final(st2.msgs) /\ fin = "text"
                               THEN <<"w">> ELSE <<>>]
    /\ pc' = "gen"
    /\ UNCHANGED <<turn, body, loop, hippocampus_report>>
    /\ UNCHANGED <<file, task, out, gen>>
    /\ UNCHANGED bvars
    /\ UNCHANGED probe

(***************************************************************************)
(* gen (lines 818-1064): the lines it yields.  A line is [kind, text, rep]:*)
(*   "start"    the unit carrying __start                                  *)
(*   "md"       a line of format_tool_markdown                             *)
(*   "token"    a piece of the primary stream                              *)
(*   "token2"   a piece of the second-pass stream                          *)
(*   "error"    a unit carrying an error field and "[ERROR] ..." content   *)
(*   "summary"  the consolidation summary block built from report rep      *)
(*   "DONE"     data: [DONE]                                               *)
(***************************************************************************)
Line(kind, text) == [kind |-> kind, text |-> text, rep |-> NoReport]

SummaryLine(rep) == [kind |-> "summary", text |-> <<>>, rep |-> rep]

IsAuto(step) == step.name = "memory_recall (auto)"

RECURSIVE StepLines(_)
StepLines(steps) ==
    IF steps = <<>> THEN <<>>
    ELSE <<Line("md", <<"step", Head(steps).name>>),
           Line("md", <<"arguments", Head(steps).arguments>>),
           Line("md", Head(steps).result_preview),
           Line("md", <<"duration">>)>>
         \o StepLines(Tail(steps))

\* lines 314-370, without the empty lines that gen skips
format_tool_markdown(steps) ==
    IF steps = <<>> THEN <<>>
    ELSE IF IsAuto(steps[1])
         THEN <<Line("md", <<"activation">>), Line("md", <<"source", "auto">>),
                Line("md", <<"query">>),
                Line("md", steps[1].result_preview),
                Line("md", <<"duration">>)>>
              \o (IF Len(steps) > 1
                  THEN <<Line("md", <<"heading">>)>> \o StepLines(Tail(steps))
                  ELSE <<>>)
              \o <<Line("md", <<"rule">>)>>
         ELSE <<Line("md", <<"heading">>)>> \o StepLines(steps)
              \o <<Line("md", <<"rule">>)>>

\* what a chunk of a model stream carries: a piece of text, or no content
Pieces == {InlineText, <<"j1">>, <<"j2">>, <<"w">>, <<"s">>}
Chunks == Pieces \cup {<<>>}
Chunks2 == {<<"w">>, InlineText, <<>>}

\* line 821
GenStart ==
    /\ pc = "gen"
    /\ out' = Append(out, Line("start", <<>>))
    /\ pc' = "md"
    /\ UNCHANGED <<turn, body, msgs, loop, executed_steps, hippocampus_report>>
    /\ UNCHANGED <<file, ltm, next_id, task, gen, hist>>
    /\ UNCHANGED bvars
    /\ UNCHANGED probe

\* lines 823-829
GenToolMarkdown ==
    /\ pc = "md"
    /\ out' = out \o format_tool_markdown(executed_steps)
    /\ pc' = "precheck"
    /\ UNCHANGED <<turn, body, msgs, loop, executed_steps, hippocampus_report>>
    /\ UNCHANGED <<file, ltm, next_id, task, gen, hist>>
    /\ UNCHANGED bvars
    /\ UNCHANGED probe

\* lines 887-892: the model name is still a placeholder
ModelNotConfigured ==
    /\ pc = "precheck"
    /\ out' = Append(out, Line("error", <<"model not configured">>))
    /\ pc' = "finalize"
    /\ hist' = [hist EXCEPT !.path = "nomodel"]
    /\ UNCHANGED <<turn, body, msgs, loop, executed_steps, hippocampus_report>>
    /\ UNCHANGED <<file, ltm, next_id, task, gen>>
    /\ UNCHANGED bvars
    /\ UNCHANGED probe

\* line 939: run_stream(msgs) returns the stream or raises
OpenStream ==
    /\ pc = "precheck"
    /\ task.pc # "created"
    /\ \E ok \in BOOLEAN :
         /\ pc' = IF ok THEN "stream" ELSE "except"
         /\ hist' = [hist EXCEPT !.trouble = @ \/ ~ok, !.path = "main"]
    /\ UNCHANGED <<turn, body, msgs, loop, executed_steps, hippocampus_report>>
    /\ UNCHANGED <<file, ltm, next_id, task, out, gen>>
    /\ UNCHANGED bvars
    /\ UNCHANGED probe

\* lines 943-1022 without the inline_intercept_used test of line 967
StreamChunkUnguarded(Envs) ==
    /\ pc = "stream"
    /\ gen.chunks < MaxChunks
    /\ \E piece \in Chunks, env \in Envs :
         LET buffer_first == gen.buffer_first \o piece
             snippet == Strip(buffer_first)
             inline_json == try_parse_inline_tool(snippet)
             r == tool_memory_recall(ltm, <<"x">>, env)
             step == Step("memory_recall", "ok", r.result)
         IN  IF piece = <<>>
             THEN /\ gen' = [gen EXCEPT !.chunks = @ + 1]
                  /\ UNCHANGED <<pc, out, msgs, executed_steps, next_id, hist>>
             ELSE IF ~gen.got_any /\ inline_json
             THEN \* lines 968-991, up to the second run_stream call
                  /\ gen' = [gen EXCEPT !.chunks = @ + 1,
                                        !.buffer_first = buffer_first,
                                        !.inline_intercept_used = TRUE]
                  /\ executed_steps' = Append(executed_steps, step)
                  /\ msgs' = msgs \o
                        <<CallMsg(<<>>, <<[id |-> next_id, name |-> "memory_recall",
                                           args |-> "ok"]>>),
                          ToolMsg(next_id, ResultText(r.result)),
                          PMsg("system", <<"continue_instruction">>)>>
                  /\ next_id' = next_id + 1
                  /\ out' = out \o format_tool_markdown(<<step>>)
                  /\ pc' = "open2"
                  /\ hist' = [hist EXCEPT !.primary = @ \o piece,
                                          !.intercepts = @ + 1]
             ELSE \* lines 1016-1019
                  /\ gen' = [gen EXCEPT
                               !.chunks = @ + 1,
                               !.buffer_first =
                                   IF gen.got_any THEN @ ELSE buffer_first,
                               !.got_any = TRUE,
                               !.assistant_output_buf = @ \o piece]
                  /\ out' = Append(out, Line("token", piece))
                  /\ hist' = [hist EXCEPT !.primary = @ \o piece,
                                          !.answer = @ \o piece]
                  /\ UNCHANGED <<pc, msgs, executed_steps, next_id>>
    /\ UNCHANGED <<turn, body, loop, hippocampus_report>>
    /\ UNCHANGED <<file, ltm, task>>
    /\ UNCHANGED bvars
    /\ UNCHANGED probe

\* lines 943-1022: one chunk of the primary stream arrives, the client still
\* connected
StreamChunk(Envs) ==
    /\ pc = "stream"
    /\ gen.chunks < MaxChunks
    /\ \E piece \in Chunks, env \in Envs :
         LET buffer_first == gen.buffer_first \o piece
             snippet == Strip(buffer_first)
             inline_json == try_parse_inline_tool(snippet)
             r == tool_memory_recall(ltm, <<"x">>, env)
             step == Step("memory_recall", "ok", r.result)
         IN  IF piece = <<>>
             THEN /\ gen' = [gen EXCEPT !.chunks = @ + 1]
                  /\ UNCHANGED <<pc, out, msgs, executed_steps, next_id, hist>>
             ELSE IF ~gen.got_any /\ inline_json /\ ~gen.inline_intercept_used
             THEN \* lines 968-991, up to the second run_stream call
                  /\ gen' = [gen EXCEPT !.chunks = @ + 1,
                                        !.buffer_first = buffer_first,
                                        !.inline_intercept_used = TRUE]
                  /\ executed_steps' = Append(executed_steps, step)
                  /\ msgs' = msgs \o
                        <<CallMsg(<<>>, <<[id |-> next_id, name |-> "memory_recall",
                                           args |-> "ok"]>>),
                          ToolMsg(next_id, ResultText(r.result)),
                          PMsg("system", <<"continue_instruction">>)>>
                  /\ next_id' = next_id + 1
                  /\ out' = out \o format_tool_markdown(<<step>>)
                  /\ pc' = "open2"
                  /\ hist' = [hist EXCEPT !.primary = @ \o piece,
                                          !.intercepts = @ + 1]
             ELSE \* lines 1016-1019
                  /\ gen' = [gen EXCEPT
                               !.chunks = @ + 1,
                               !.buffer_first =
                                   IF gen.got_any THEN @ ELSE buffer_first,
                               !.got_any = TRUE,
                               !.assistant_output_buf = @ \o piece]
                  /\ out' = Append(out, Line("token", piece))
                  /\ hist' = [hist EXCEPT !.primary = @ \o piece,
                                          !.answer = @ \o piece]
                  /\ UNCHANGED <<pc, msgs, executed_steps, next_id>>
    /\ UNCHANGED <<turn, body, loop, hippocampus_report>>
    /\ UNCHANGED <<file, ltm, task>>
    /\ UNCHANGED bvars
    /\ UNCHANGED probe

\* the primary stream raises while it is iterated (to line 1057)
StreamRaise ==
    /\ pc = "stream"
    /\ pc' = "except"
    /\ hist' = [hist EXCEPT !.trouble = TRUE]
    /\ UNCHANGED <<turn, body, msgs, loop, executed_steps, hippocampus_report>>
    /\ UNCHANGED <<file, ltm, next_id, task, out, gen>>
    /\ UNCHANGED bvars
    /\ UNCHANGED probe

\* lines 1026-1035
AppendAssistant(doc, buf) ==
    IF Strip(buf) # <<>>
    THEN [doc EXCEPT !.raw_history = Append(@, Entry("assistant", Strip(buf)))]
    ELSE doc

\* the primary stream ends, or the client is found disconnected when a chunk
\* arrives (line 944): the loop is left and the assistant output appended
FinishPrimary ==
    /\ pc = "stream"
    /\ \E disconnected \in BOOLEAN :
         hist' = [hist EXCEPT !.disconnected = disconnected]
    /\ file' = IF AppendSaveRaises \/ Strip(gen.assistant_output_buf) = <<>>
               THEN file
               ELSE AppendAssistant(load_short_mem(file), gen.assistant_output_buf)
    /\ pc' = "wait_main"
    /\ UNCHANGED <<turn, body, msgs, loop, executed_steps, hippocampus_report>>
    /\ UNCHANGED <<ltm, next_id, task, out, gen>>
    /\ UNCHANGED bvars
    /\ UNCHANGED probe

\* line 991: the second run_stream call returns the stream, or raises into the
\* handler of line 1020, which goes on with the primary stream
OpenStream2 ==
    /\ pc = "open2"
    /\ \E ok \in BOOLEAN :
         /\ pc' = IF ok THEN "stream2" ELSE "stream"
         /\ hist' = [hist EXCEPT !.trouble = @ \/ ~ok,
                                 !.second_streams = IF ok THEN @ + 1 ELSE @]
    /\ gen' = [gen EXCEPT !.chunks2 = 0]
    /\ UNCHANGED <<turn, body, msgs, loop, executed_steps, hippocampus_report>>
    /\ UNCHANGED <<file, ltm, next_id, task, out>>
    /\ UNCHANGED bvars
    /\ UNCHANGED probe

\* lines 992-1008
Stream2Chunk ==
    /\ pc = "stream2"
    /\ gen.chunks2 < MaxChunks
    /\ \E piece \in Chunks2 :
         /\ out' = IF piece = <<>> THEN out ELSE Append(out, Line("token2", piece))
         /\ hist' = [hist EXCEPT !.answer = @ \o piece]
    /\ gen' = [gen EXCEPT !.chunks2 = @ + 1]
    /\ UNCHANGED <<turn, pc, body, msgs, loop, executed_steps, hippocampus_report>>
    /\ UNCHANGED <<file, ltm, next_id, task>>
    /\ UNCHANGED bvars
    /\ UNCHANGED probe

\* the second stream raises while iterated: handler of line 1020
Stream2Raise ==
    /\ pc = "stream2"
    /\ pc' = "stream"
    /\ hist' = [hist EXCEPT !.trouble = TRUE]
    /\ UNCHANGED <<turn, body, msgs, loop, executed_steps, hippocampus_report>>
    /\ UNCHANGED <<file, ltm, next_id, task, out, gen>>
    /\ UNCHANGED bvars
    /\ UNCHANGED probe

\* the second stream ends or the client is found disconnected (line 993)
FinishSecond ==
    /\ pc = "stream2"
    /\ \E disconnected \in BOOLEAN :
         hist' = [hist EXCEPT !.disconnected = disconnected, !.path = "inline"]
    /\ pc' = "finalize"
    /\ UNCHANGED <<turn, body, msgs, loop, executed_steps, hippocampus_report>>
    /\ UNCHANGED <<file, ltm, next_id, task, out, gen>>
    /\ UNCHANGED bvars
    /\ UNCHANGED probe

\* lines 1057-1060 without the yield of line 1060
ExceptPathSilent ==
    /\ pc = "except"
    /\ out' = out
    /\ pc' = "finalize"
    /\ hist' = [hist EXCEPT !.path = "error"]
    /\ UNCHANGED <<turn, body, msgs, loop, executed_steps, hippocampus_report>>
    /\ UNCHANGED <<file, ltm, next_id, task, gen>>
    /\ UNCHANGED bvars
    /\ UNCHANGED probe

\* lines 1057-1060
ExceptPath ==
    /\ pc = "except"
    /\ out' = Append(out, Line("error", <<"exception">>))
    /\ pc' = "finalize"
    /\ hist' = [hist EXCEPT !.path = "error"]
    /\ UNCHANGED <<turn, body, msgs, loop, executed_steps, hippocampus_report>>
    /\ UNCHANGED <<file, ltm, next_id, task, gen>>
    /\ UNCHANGED bvars
    /\ UNCHANGED probe

(***************************************************************************)
(* Joining the consolidation task.  asyncio.wait_for on a task that is not *)
(* done either returns its outcome once it is done, or after 6 s cancels   *)
(* it, waits until it is cancelled and raises TimeoutError.  The task can  *)
(* only be pending that long inside an awaited call to a provider.         *)
(***************************************************************************)
TaskPending == task.pc \in {"llm", "embed"}

\* the report made of a finished task: its result, or str() of what it raised
TaskOutcome ==
    IF task.raised THEN ErrorReport(FALSE, "exception") ELSE task.result

\* lines 1039-1051, the task done (on entry or within the wait), or no task
WaitMainDone ==
    /\ pc = "wait_main"
    /\ task.pc \in {"none", "done"}
    /\ hippocampus_report' =
           IF task.pc = "none" THEN hippocampus_report ELSE TaskOutcome
    /\ pc' = "finalize"
    /\ UNCHANGED <<turn, body, msgs, loop, executed_steps>>
    /\ UNCHANGED <<file, ltm, next_id, task, out, gen, hist>>
    /\ UNCHANGED bvars
    /\ UNCHANGED probe

\* lines 1042-1044: wait_for times out
WaitMainTimeout ==
    /\ pc = "wait_main"
    /\ TaskPending
    /\ task' = [task EXCEPT !.pc = "cancelled"]
    /\ hippocampus_report' = ErrorReport(FALSE, "hippocampus timeout")
    /\ hist' = [hist EXCEPT !.timed_out = TRUE]
    /\ pc' = "finalize"
    /\ UNCHANGED <<turn, body, msgs, loop, executed_steps>>
    /\ UNCHANGED <<file, ltm, next_id, out, gen>>
    /\ UNCHANGED bvars
    /\ UNCHANGED probe

\* finalize_and_build_hippocampus_summary (lines 831-884) with the task done
\* or absent, then the summary unit and data: [DONE]
FinalizeDone ==
    /\ pc = "finalize"
    /\ task.pc \in {"none", "done"}
    /\ LET rep == IF task.pc = "done" THEN TaskOutcome
                  ELSE IF ~hippocampus_report.set
                       THEN ErrorReport(FALSE, "not_started")
                       ELSE hippocampus_report
       IN  /\ hippocampus_report' = rep
           /\ out' = out \o <<SummaryLine(rep), Line("DONE", <<>>)>>
    /\ pc' = "done"
    /\ UNCHANGED <<turn, body, msgs, loop, executed_steps>>
    /\ UNCHANGED <<file, ltm, next_id, task, gen, hist>>
    /\ UNCHANGED bvars
    /\ UNCHANGED probe

\* lines 836-838: wait_for times out inside finalize
FinalizeTimeout ==
    /\ pc = "finalize"
    /\ TaskPending
    /\ task' = [task EXCEPT !.pc = "cancelled"]
    /\ hippocampus_report' = ErrorReport(FALSE, "timeout")
    /\ out' = out \o <<SummaryLine(ErrorReport(FALSE, "timeout")), Line("DONE", <<>>)>>
    /\ hist' = [hist EXCEPT !.timed_out = TRUE]
    /\ pc' = "done"
    /\ UNCHANGED <<turn, body, msgs, loop, executed_steps>>
    /\ UNCHANGED <<file, ltm, next_id, gen>>
    /\ UNCHANGED bvars
    /\ UNCHANGED probe

\* lines 841-845 on a task the wait of line 1042 cancelled: task.result()
\* raises CancelledError.  From CPython 3.8 on that is no Exception: neither
\* line 844 nor line 1057 catches it and it leaves the generator.  Before
\* 3.8 line 844 catches it and the report is made of str() of it, "".
FinalizeCancelled ==
    /\ pc = "finalize"
    /\ task.pc = "cancelled"
    /\ \E caught \in BOOLEAN :
         IF caught
         THEN /\ hippocampus_report' = ErrorReport(FALSE, "")
              /\ out' = out \o <<SummaryLine(ErrorReport(FALSE, "")),
                                 Line("DONE", <<>>)>>
              /\ pc' = "done"
         ELSE /\ pc' = "crashed"
              /\ UNCHANGED <<out, hippocampus_report>>
    /\ UNCHANGED <<turn, body, msgs, loop, executed_steps>>
    /\ UNCHANGED <<file, ltm, next_id, task, gen, hist>>
    /\ UNCHANGED bvars
    /\ UNCHANGED probe

(***************************************************************************)
(* Spec: requests to /chat/stream, one after another.                      *)
(***************************************************************************)
\* what the tool phase meets in Spec
TurnCfgs == {CfgInt(n) : n \in 0..MaxLoopCfg}
TurnReplies ==
    {Raises, Reply(<<"w">>, <<>>),
     Reply(<<>>, <<ToolCall("memory_recall", "ok")>>)}
TurnEnvs == {"ok"}

\* the session document found on disk when the server starts: none yet, or
\* the one an earlier run left
PriorDocs ==
    {DefaultDoc,
     [raw_history |-> <<Entry("user", UserText(0)), Entry("assistant", <<"w">>)>>,
      background |-> BgChar(0)]}

Init == BudgetIdle /\ ProbeIdle /\ \E doc \in PriorDocs : PipelineIdle(doc)

TaskStep == TaskStart \/ TaskModelReturn \/ TaskStoreReturn

ToolPhase ==
    \/ ToolLoopEnter(TurnCfgs)
    \/ ToolIteration(TurnReplies, TurnEnvs)
    \/ Backstops(TurnEnvs, {Absent})

GenStep ==
    \/ GenStart \/ GenToolMarkdown \/ ModelNotConfigured \/ OpenStream
    \/ StreamChunk(TurnEnvs) \/ StreamRaise \/ FinishPrimary
    \/ OpenStream2 \/ Stream2Chunk \/ Stream2Raise \/ FinishSecond
    \/ ExceptPath

JoinStep ==
    \/ WaitMainDone \/ WaitMainTimeout
    \/ FinalizeDone \/ FinalizeTimeout \/ FinalizeCancelled

Next == StartTurn \/ TaskStep \/ ToolPhase \/ GenStep \/ JoinStep

Spec == Init /\ [][Next]_vars

(***************************************************************************)
(* SpecDisk: one turn on a file system that fails, in one of the ways of   *)
(* DiskModes, whenever SHORT_MEM_FILE is read or written; an earlier run   *)
(* has left a session document.                                            *)
(***************************************************************************)
InitDisk ==
    /\ BudgetIdle
    /\ ProbeIdle
    /\ \E doc \in PriorDocs \ {DefaultDoc}, disk \in DiskModes \ {"ok"} :
         PipelineIdleOn(doc, disk)

SpecDisk == InitDisk /\ [][Next]_vars

(***************************************************************************)
(* SpecLoop: the tool phase of one request on its own (lines 722-816),     *)
(* under every setting of memory.max_tool_loops and every planning reply.  *)
(***************************************************************************)
\* ceilings up to which the planning replies are left free; above, the model
\* is the stub that requests one tool call on every turn
FreeLoops == 2

LoopCfgs ==
    {CfgAbsent, CfgNull, CfgBool, CfgFloat(3), CfgInt(-1), CfgInt(HardCap),
     CfgInt(HardCap + 1), CfgStr(<<"2">>), CfgStr(<<"3", "1">>),
     CfgStr(<<"-", "1">>), CfgStr(<<"sup2">>)}
    \cup {CfgInt(n) : n \in 0..FreeLoops}

StubReplies == {Reply(<<>>, <<ToolCall("memory_recall", "ok")>>)}

LoopReplies ==
    {Raises, Reply(<<"w">>, <<>>), Reply(<<>>, <<>>), Reply(<<"s">>, <<>>),
     Reply(InlineText, <<>>),
     Reply(<<"w">>, <<ToolCall("memory_recall", "ok")>>)}
    \cup {Reply(<<>>, <<ToolCall(n, a)>>) :
            n \in {"memory_store", "memory_recall", "other"},
            a \in {"ok", "malformed", "nonobject"}}

\* the latest user message of the request: a plain one, one matching the
\* keyword pattern, one of two characters with whitespace around it, and a
\* matching one longer than the 200 characters of line 770
LongKwText == [i \in 1..(StoreChars + 1) |-> IF i = 1 THEN KwChar(1) ELSE "w"]

\* memory.auto_query_recall_query_max_chars as found in config.json
QMaxCfgs == {Absent, Given(0), Given(1)}

LoopTexts == {UserText(1), KwText(1), <<"s", UserChar(1), "v", "s">>, LongKwText}

InitLoop ==
    /\ BudgetIdle
    /\ ProbeIdle
    /\ \E text \in LoopTexts :
         /\ body = [text |-> text, tools |-> TRUE]
         /\ msgs = AssembleMsgs(DefaultDoc, <<PMsg("user", text)>>, TRUE)
    /\ file = DefaultDoc
    /\ ltm = <<>>
    /\ next_id = 1
    /\ turn = 1
    /\ pc = "tools"
    /\ loop = NoLoop
    /\ executed_steps = <<>>
    /\ hippocampus_report = NoReport
    /\ task = NoTask
    /\ out = <<>>
    /\ gen = GenInit
    /\ hist = HistInit

NextLoop ==
    \/ ToolLoopEnter(LoopCfgs)
    \/ ToolIteration(IF loop.loops <= FreeLoops THEN LoopReplies ELSE StubReplies,
                     IF loop.loops <= FreeLoops THEN ToolEnvs ELSE {"ok"})
    \/ Backstops(ToolEnvs, QMaxCfgs)

SpecLoop == InitLoop /\ [][NextLoop]_vars

(***************************************************************************)
(* SpecStore: the memory tools and embed_texts called directly, on a       *)
(* collection that already holds entries.                                  *)
(***************************************************************************)
MaxPrior == 5
MaxTexts == 2

\* the fallback of get_embedding_dimension (line 123)
DefaultDim == 1536

StoreTexts == {<<"ta">>, <<"tb">>}

\* the collections left by earlier stores: entries with ids 1..n
PriorStores ==
    {[i \in 1..Len(q) |-> [id |-> i, text |-> q[i], vec |-> q[i]]] :
        q \in SeqsUpTo(StoreTexts, MaxPrior)}

\* distance of two embeddings: equal vectors are at distance 0, and nothing
\* is known of the order among different ones
Dist(v, w) == IF v = w THEN 0 ELSE 1

\* coll.query(query_embeddings, n_results = k) (line 390): the indices of k
\* nearest entries, ties broken as the collection pleases
query(store, qvec, k) ==
    LET n == Len(store)
        m == IF k < n THEN k ELSE n
    IN  {R \in SUBSET (1..n) :
            /\ Cardinality(R) = m
            /\ \A i \in R, j \in (1..n) \ R :
                 Dist(store[i].vec, qvec) <= Dist(store[j].vec, qvec)}

\* get_embedding_dimension (lines 119-130) for the value c of
\* embedding.dimension
get_embedding_dimension(c) ==
    CASE c.kind \in {"int", "float", "bool"} /\ c.n > 0 -> c.n
      [] c.kind = "str" /\ c.s # <<>>
           /\ (\A i \in 1..Len(c.s) : IsDecimalChar(c.s[i]))
           /\ ParseDecimal(c.s, 0) > 0 -> ParseDecimal(c.s, 0)
      [] OTHER -> DefaultDim

\* What embed_texts meets: the provider answers; the provider raises; the
\* client cannot be built for want of an api_key; the client cannot be built
\* because load_config raises (no readable configuration file).
EmbedEnvs == {"ok", "provider_raises", "no_api_key", "no_config"}

DimCfgs ==
    {CfgAbsent, CfgNull, CfgInt(-1), CfgInt(0), CfgInt(3), CfgFloat(2),
     CfgStr(<<"3">>), CfgStr(<<"sup2">>)}

\* embed_texts (lines 300-312) on n texts: [raised, vectors].  In the except
\* branch get_embedding_dimension calls load_config again, outside any try.
embed_texts_batch(n, env, c) ==
    CASE env = "ok" ->
           [raised |-> FALSE,
            vectors |-> [i \in 1..n |-> [zero |-> FALSE,
                                         dim |-> get_embedding_dimension(c)]]]
      [] env = "no_config" -> [raised |-> TRUE, vectors |-> <<>>]
      [] OTHER ->
           [raised |-> FALSE,
            vectors |-> [i \in 1..n |-> [zero |-> TRUE,
                                         dim |-> get_embedding_dimension(c)]]]

InitStore ==
    /\ BudgetIdle
    /\ ProbeIdle
    /\ ltm \in PriorStores
    /\ next_id = Len(ltm) + 1
    /\ file = DefaultDoc
    /\ turn = 0
    /\ pc = "idle"
    /\ body = [text |-> <<>>, tools |-> FALSE]
    /\ msgs = <<>>
    /\ loop = NoLoop
    /\ executed_steps = <<>>
    /\ hippocampus_report = NoReport
    /\ task = NoTask
    /\ out = <<>>
    /\ gen = GenInit
    /\ hist = HistInit

\* tool_memory_store(text) is called (lines 373-381)
StoreCall ==
    /\ probe.op = "none"
    /\ \E text \in StoreTexts, env \in ToolEnvs :
         LET r == tool_memory_store(ltm, next_id, text, env)
         IN  /\ ltm' = r.ltm
             /\ next_id' = IF r.result.error THEN next_id ELSE next_id + 1
             /\ probe' = [NoProbe EXCEPT !.op = "stored", !.text = text,
                                         !.id = r.result.id, !.env = env,
                                         !.raised = r.result.error]
    /\ UNCHANGED <<file, turn, pc, body, msgs, loop, executed_steps>>
    /\ UNCHANGED <<hippocampus_report, task, out, gen, hist>>
    /\ UNCHANGED bvars

\* tool_memory_recall(text) with the default top_k is called right after the
\* store (lines 383-400)
RecallCall ==
    /\ probe.op = "stored"
    /\ \E env \in ToolEnvs :
         IF env = "store_fail"
         THEN probe' = [probe EXCEPT !.op = "recalled", !.env2 = env,
                                     !.raised = TRUE]
         ELSE \E R \in query(ltm, embed_texts(probe.text, env), DefaultTopK) :
                probe' = [probe EXCEPT !.op = "recalled", !.env2 = env,
                                       !.results = {ltm[i].id : i \in R}]
    /\ UNCHANGED pvars
    /\ UNCHANGED bvars

\* embed_texts is called on n texts
EmbedCall ==
    /\ probe.op = "none"
    /\ \E n \in 0..MaxTexts, env \in EmbedEnvs, c \in DimCfgs :
         LET r == embed_texts_batch(n, env, c)
         IN  probe' = [NoProbe EXCEPT !.op = "embedded", !.n = n, !.env = env,
                                      !.cfg = c, !.raised = r.raised,
                                      !.vectors = r.vectors]
    /\ UNCHANGED pvars
    /\ UNCHANGED bvars

NextStore == StoreCall \/ RecallCall \/ EmbedCall

SpecStore == InitStore /\ [][NextStore]_vars

(***************************************************************************)
(* SpecReload: the lru_cache'd functions of lines 87-140 and 289-298,      *)
(* config.json being edited, and /admin/reload (lines 1112-1128).          *)
(***************************************************************************)
\* how often config.json is rewritten; its contents are numbered 0..MaxEdits
MaxEdits == 2

\* the functions decorated with lru_cache(maxsize=1)
Components ==
    {"load_config", "get_chat_client", "get_embedding_client",
     "get_embedding_dimension", "get_chroma", "get_hippocampus_client"}

\* the caches admin_reload clears (lines 1119-1123)
ClearedByReload ==
    {"load_config", "get_chat_client", "get_embedding_client",
     "get_embedding_dimension", "get_chroma"}

\* an empty cache; a filled one holds the number of the contents of
\* config.json its value was built from
Unbuilt == -1

\* probe under SpecReload: the contents of config.json, the caches, what each
\* function returned since the last reload, and whether /admin/reload has
\* returned status ok and config.json has not been edited since
NoCache ==
    [op |-> "reload", config |-> 0,
     cache |-> [c \in Components |-> Unbuilt],
     served |-> [c \in Components |-> Unbuilt],
     reloaded |-> FALSE]

\* load_config() (lines 87-93) under lru_cache: [cache, value]
load_config(cache, config) ==
    IF cache["load_config"] # Unbuilt
    THEN [cache |-> cache, value |-> cache["load_config"]]
    ELSE [cache |-> [cache EXCEPT !["load_config"] = config], value |-> config]

\* a call of the cached function c (lines 104-140, 289-298): a cached value
\* is returned as it is; otherwise the body runs on load_config() and its
\* value is cached unless it raises (ok is whether it returns)
call_cached(cache, c, config, ok) ==
    IF c = "load_config" THEN load_config(cache, config)
    ELSE IF cache[c] # Unbuilt THEN [cache |-> cache, value |-> cache[c]]
    ELSE LET r == load_config(cache, config)
         IN  IF ok THEN [cache |-> [r.cache EXCEPT ![c] = r.value], value |-> r.value]
             ELSE [cache |-> r.cache, value |-> Unbuilt]

\* config.json is rewritten
EditConfig ==
    /\ probe.op = "reload"
    /\ probe.config < MaxEdits
    /\ probe' = [probe EXCEPT !.config = @ + 1, !.reloaded = FALSE]
    /\ UNCHANGED pvars
    /\ UNCHANGED bvars

\* a request calls one of the cached functions
UseComponent ==
    /\ probe.op = "reload"
    /\ \E c \in Components, ok \in BOOLEAN :
         LET r == call_cached(probe.cache, c, probe.config, ok)
         IN  probe' = [probe EXCEPT !.cache = r.cache, !.served[c] = r.value]
    /\ UNCHANGED pvars
    /\ UNCHANGED bvars

\* POST /admin/reload (lines 1112-1128): status ok unless load_config raises
AdminReload ==
    /\ probe.op = "reload"
    /\ \E ok \in BOOLEAN :
         LET cleared == [c \in Components |->
                           IF c \in ClearedByReload THEN Unbuilt ELSE probe.cache[c]]
         IN  probe' = [probe EXCEPT
                         !.cache = IF ok THEN load_config(cleared, probe.config).cache
                                   ELSE cleared,
                         !.served = [c \in Components |-> Unbuilt],
                         !.reloaded = ok]
    /\ UNCHANGED pvars
    /\ UNCHANGED bvars

InitReload ==
    /\ BudgetIdle
    /\ probe = NoCache
    /\ PipelineIdle(DefaultDoc)

NextReload == EditConfig \/ UseComponent \/ AdminReload

SpecReload == InitReload /\ [][NextReload]_vars

(***************************************************************************)
(* Properties of enforce_context_budget, checked under SpecBudget.         *)
(***************************************************************************)
budget_chars == IntOr(budget_cfg, 0, 0)

Contains(ms, m) == \E j \in 1..Len(ms) : ms[j] = m

PinnedChars == SumOver(pinned_set(messages, pin_cfg), per_index_len(messages))

InjectedChars(ms) == SumOver(injected_indices(ms), [i \in 1..Len(ms) |-> ms[i].len])

Trimmed == bphase # "build" /\ enforced # messages

\* C7: enforce_context_budget is idempotent: applied to its own output with
\* the same budget and pin count it returns that output unchanged.
C7_Idempotent == bphase = "twice" => enforced2 = enforced

\* C8: for every budget at least the pinned messages' combined length, the
\* output contains every system message of the input and every one of the
\* first pin_first injected_raw messages.
C8_SystemAndPinnedKept ==
    (bphase # "build" /\ budget_chars >= PinnedChars) =>
        \A i \in SystemIndices(messages) \cup pinned_set(messages, pin_cfg) :
            Contains(enforced, messages[i])

\* C8 witness: a trim happened on a list that holds a system message and a
\* pinned message, with the budget at least the pinned length.
C8_Witness ==
    /\ Trimmed
    /\ budget_chars >= PinnedChars
    /\ SystemIndices(messages) # {}
    /\ pinned_set(messages, pin_cfg) # {}

\* C9: with a positive budget at least the pinned messages' combined length,
\* the injected_raw messages left in the output total at most budget_chars.
C9_InjectedWithinBudget ==
    (bphase # "build" /\ budget_chars > 0 /\ budget_chars >= PinnedChars) =>
        InjectedChars(enforced) <= budget_chars

(***************************************************************************)
(* Properties of the streaming pipeline, checked under Spec.               *)
(***************************************************************************)
\* the generator of the current request is over: it returned or it raised
Closed == pc \in {"done", "crashed"}

CountKind(lines, kind) == Cardinality({i \in 1..Len(lines) : lines[i].kind = kind})

TimeoutReport == ErrorReport(FALSE, "timeout")

\* the turn went through the primary stream to its end without any provider
\* error
PlainTurn == hist.path = "main" /\ ~hist.trouble /\ ~gen.inline_intercept_used

UserPersisted == \E i \in 1..Len(file.raw_history) :
                     file.raw_history[i] = Entry("user", body.text)

\* the consolidation model call of the current request has been issued
ModelCallIssued ==
    task.pc \in {"llm", "embed", "cancelled"} \/ hist.llm_done

\* C1: for every turn whose stream starts, the emitted lines hold exactly one
\* unit carrying the start marker, which is the first line, and exactly one
\* [DONE] line, which is the last line.
C1_StartFirstDoneLast ==
    Closed =>
        /\ out # <<>>
        /\ out[1].kind = "start"
        /\ out[Len(out)].kind = "DONE"
        /\ CountKind(out, "start") = 1
        /\ CountKind(out, "DONE") = 1

\* C2: when the consolidation task has not completed within the bounded wait
\* at stream close, then on every path the final report is
\* {enabled: false, error: "timeout"}, the summary block is emitted and the
\* stream ends with [DONE].
C2_TimeoutReported ==
    (Closed /\ hist.timed_out) =>
        /\ hippocampus_report = TimeoutReport
        /\ \E i \in 1..Len(out) : out[i] = SummaryLine(TimeoutReport)
        /\ out[Len(out)].kind = "DONE"

\* C3: within one turn, under every interleaving of the consolidation task
\* with the pipeline, each save of the session document writes a raw_history
\* that has the previously persisted raw_history as a prefix.
C3_SavesExtendHistory ==
    [][IsPrefix(file.raw_history, file'.raw_history)]_vars

\* C4: under every consolidation outcome, when a turn is over the persisted
\* raw_history has grown by one entry for the user message and one for the
\* non-empty assistant output, and the entries persisted before the turn are
\* unchanged.
C4_HistoryGrowsByTurn ==
    (Closed /\ TaskFinished /\ PlainTurn) =>
        /\ Len(file.raw_history) =
               Len(hist.doc0.raw_history)
               + (IF body.text # <<>> THEN 1 ELSE 0)
               + (IF Strip(gen.assistant_output_buf) # <<>> THEN 1 ELSE 0)
        /\ IsPrefix(hist.doc0.raw_history, file.raw_history)

\* C5: in the consolidation task the raw_history holding the new user message
\* is persisted before the consolidation model call is issued, so the message
\* is in the persisted document even if the call fails, never returns or is
\* cancelled by the bounded wait.
C5_UserPersistedBeforeCall == ModelCallIssued => UserPersisted

\* C10: when the primary model's output is the inline tool-call text, however
\* the provider splits it into stream chunks, exactly one interception fires
\* and exactly one second-pass stream is started.
C10_OneInterception ==
    (Closed /\ hist.primary = InlineText /\ ~hist.trouble /\ ~hist.disconnected) =>
        hist.intercepts = 1 /\ hist.second_streams = 1

(***************************************************************************)
(* Properties of run_tool_iteration, checked under SpecLoop.               *)
(***************************************************************************)
\* the ceiling the setting c stands for: min(c, 30), 8 when c is absent or
\* no count
ClaimedCeiling(c) ==
    IF c.kind = "int" /\ c.n >= 0 THEN Min(c.n, HardCap)
    ELSE IF c.kind = "str" /\ c.s # <<>> /\ \A i \in 1..Len(c.s) : IsDecimalChar(c.s[i])
         THEN Min(ParseDecimal(c.s, 0), HardCap)
         ELSE DefaultLoops

\* run_tool_iteration has returned or raised
LoopOver == pc = "backstops" \/ loop.raised

\* C6: run_tool_iteration makes at most min(max_tool_loops, 30) planning
\* calls (8 when the setting is absent or invalid); with a model that
\* requests a tool call on every turn it returns after exactly that many
\* iterations, with the steps accumulated so far and without raising.
C6_LoopCeiling ==
    /\ loop.calls <= ClaimedCeiling(loop.cfg)
    /\ (LoopOver /\ loop.stub) =>
           /\ ~loop.raised
           /\ loop.idx = ClaimedCeiling(loop.cfg)
           /\ executed_steps = loop.executed

(***************************************************************************)
(* Further properties of the streaming pipeline, checked under Spec.       *)
(***************************************************************************)
\* a model call of the pipeline for the current turn has completed: a
\* tool-planning call, the closing-reply call or the creation of the primary
\* stream
PipelineCallCompleted == loop.calls > 0 \/ hist.closing \/ hist.path = "main"

StartEmitted == out # <<>> /\ out[1].kind = "start"

\* C11: in every turn the start (keep-alive) unit is emitted before any model
\* call made for that turn has completed.
C11_StartBeforeModelCalls == PipelineCallCompleted => StartEmitted

\* the consolidation task of the turn never loads or saves the session
\* document: there is none, or the hippocampus client is not configured
TaskNeverSaves ==
    task.pc = "none" \/ (task.pc = "done" /\ task.result = ErrorReport(FALSE, "<absent>"))

AssistantPersisted(text) ==
    \E i \in 1..Len(file.raw_history) :
        file.raw_history[i] = Entry("assistant", text)

\* C12: in every turn whose primary output completes with non-empty text,
\* turns answered by the second-pass stream included, the assistant text
\* emitted to the client is appended as one assistant entry to the persisted
\* raw_history before [DONE] is emitted.
C12_AnswerPersisted ==
    (pc = "done" /\ ~hist.trouble /\ hist.path \in {"main", "inline"}
       /\ TaskNeverSaves /\ Answered) =>
        AssistantPersisted(Strip(hist.answer))

\* the step line i of out shows the result of a tool call
ShowsResult(i) == out[i].kind = "md" /\ Head(out[i].text) = "result"

\* C13: runs of the same turn from the same session document and long-term
\* store, with the same model behaviour, that differ only in the consolidation
\* outcome or timing emit the same tool-step lines and answer tokens.  Every
\* run starts from the empty store, and in the run where consolidation writes
\* nothing a pipeline that stores nothing itself is shown empty recall
\* results; so every such run shows empty recall results.
C13_LinesIndependentOfConsolidation ==
    ~HasStep(executed_steps, "memory_store") =>
        \A i \in 1..Len(out) :
            ShowsResult(i) => out[i].text = <<"result", CountChar(0)>>

\* The pipeline state machine as an acceptor of emitted lines.  An error
\* unit is allowed where the stream of tokens breaks off, and the pieces that
\* follow an interception block count as second-pass tokens; the block may
\* come with no primary token before it.
Delta(q, kind) ==
    CASE q = "START" /\ kind = "start" -> "TOOL_STEPS"
      [] q = "TOOL_STEPS" /\ kind = "md" -> "TOOL_STEPS"
      [] q \in {"TOOL_STEPS", "PRIMARY"} /\ kind = "token" -> "PRIMARY"
      [] q \in {"PRIMARY", "INTERCEPT"} /\ kind = "md" -> "INTERCEPT"
      [] q \in {"INTERCEPT", "SECOND"} /\ kind \in {"token", "token2"} -> "SECOND"
      [] q = "TOOL_STEPS" /\ kind = "token2" -> "SECOND"
      [] q \in {"TOOL_STEPS", "PRIMARY", "INTERCEPT", "SECOND"} /\ kind = "error"
           -> "ERROR"
      [] q \in {"TOOL_STEPS", "PRIMARY", "INTERCEPT", "SECOND", "ERROR"}
           /\ kind = "summary" -> "SUMMARY"
      [] q = "SUMMARY" /\ kind = "DONE" -> "END"
      [] OTHER -> "REJECT"

RECURSIVE RunMachine(_, _)
RunMachine(lines, q) ==
    IF lines = <<>> THEN q
    ELSE RunMachine(Tail(lines), Delta(q, Head(lines).kind))

\* C14: every emitted stream is a word of the pipeline state machine: start,
\* tool-step lines, primary tokens, optionally one interception block followed
\* by second-pass tokens, exactly one consolidation summary, [DONE]; the
\* summary is the unit immediately before [DONE] on every path.
C14_StreamIsWordOfMachine ==
    Closed =>
        /\ RunMachine(out, "START") = "END"
        /\ CountKind(out, "summary") = 1

\* C15: once client disconnection is observed during primary or second-pass
\* streaming no further model token is emitted, the assistant text produced
\* so far is still appended to the persisted raw_history, the consolidation
\* task is still awaited and the generator ends without an error unit.
C15_DisconnectFinalizes ==
    /\ hist.disconnected => pc \notin {"stream", "open2", "stream2"}
    /\ (Closed /\ hist.disconnected /\ ~hist.trouble /\ TaskNeverSaves) =>
           /\ CountKind(out, "error") = 0
           /\ TaskFinished
           /\ Answered => AssistantPersisted(Strip(hist.answer))

(***************************************************************************)
(* Further properties of run_tool_iteration, checked under SpecLoop.       *)
(***************************************************************************)
\* the tool calls the planning replies asked for so far, and the tool-role
\* messages that answer them
RECURSIVE NumRequested(_)
NumRequested(ms) ==
    IF ms = <<>> THEN 0 ELSE Len(Head(ms).tool_calls) + NumRequested(Tail(ms))

NumToolMsgs(ms) == Cardinality({i \in 1..Len(ms) : ms[i].role = "tool"})

\* C16: every tool call the model emits in the tool loop (memory_store,
\* memory_recall or an unknown name; arguments malformed or no JSON object;
\* embedding or vector store failing) produces one step record and one
\* tool-role message, with an error field on failure; no exception leaves
\* run_tool_iteration and the loop goes on.
C16_ToolCallsNeverAbort ==
    (pc \in {"planning", "backstops"} \/ (loop.raised /\ loop.calls > 0)) =>
        /\ ~loop.raised
        /\ Len(loop.executed) = NumRequested(msgs)
        /\ NumToolMsgs(msgs) = NumRequested(msgs)
        /\ \A i \in 1..Len(loop.executed) :
             loop.executed[i].name = "other" => loop.executed[i].error

(***************************************************************************)
(* Properties of the memory tools and of embed_texts, checked under        *)
(* SpecStore.                                                              *)
(***************************************************************************)
\* the store returned an id and both calls embedded with the provider's
\* embedding, which maps equal texts to equal and distinct texts to distinct
\* vectors
RoundTrip ==
    /\ probe.op = "recalled"
    /\ ~probe.raised
    /\ probe.env = "ok"
    /\ probe.env2 = "ok"

\* C17: for any prior contents of the long-term store, memory_store(t)
\* returning id i followed immediately by memory_recall(t) with the default
\* top_k returns a result list containing i.
C17_StoreThenRecall == RoundTrip => probe.id \in probe.results

\* the value of embedding.dimension is a dimension, or there is none
ClaimedDim(c) == IF c.kind = "int" /\ c.n > 0 THEN c.n ELSE DefaultDim

\* C18: when the embedding capability raises or the embedding client cannot
\* be built, embed_texts does not raise and returns, for n texts, exactly n
\* vectors, each of the configured dimension and filled with zeros.
C18_ZeroVectorFallback ==
    (probe.op = "embedded" /\ probe.env # "ok") =>
        /\ ~probe.raised
        /\ Len(probe.vectors) = probe.n
        /\ \A i \in 1..Len(probe.vectors) :
             /\ probe.vectors[i].zero
             /\ probe.cfg.kind \in {"int", "absent"} =>
                    probe.vectors[i].dim = ClaimedDim(probe.cfg)

(***************************************************************************)
(* Properties of run_hippocampus_transform's tail and of the generator's   *)
(* except branch, checked under Spec.                                      *)
(***************************************************************************)
\* the step in which the consolidation model call returns and the function
\* runs to its return statement with an empty candidate list
EmptyCandidatesReturn ==
    /\ task.pc = "llm"
    /\ task'.pc = "done"
    /\ task'.result.full
    /\ task'.cands = <<>>

\* C19: when the consolidation model returns a parseable object whose
\* ltm_candidates list is empty, the report has ltm_written == [] and
\* ltm_candidate_count == 0, consolidation writes nothing to the long-term
\* store, and the background the object carries (the old one if it carries
\* none) is persisted as the document's background and returned in the
\* report.
C19_EmptyCandidates ==
    [][EmptyCandidatesReturn =>
         /\ task'.result.ltm_written = <<>>
         /\ task'.result.ltm_candidate_count = 0
         /\ ltm' = ltm
         /\ next_id' = next_id
         /\ task'.result.background = task'.background_new
         /\ file'.background = task'.background_new]_vars

\* the model gave a background with no candidates and it is now the
\* document's
C19_Witness ==
    /\ task.pc = "done"
    /\ task.result.full
    /\ task.cands = <<>>
    /\ task.background_new = BgChar(1)
    /\ task.result.background = BgChar(1)
    /\ file.background = BgChar(1)

C21_RejectedBeforeStreaming ==
    [][pc' = "rejected" =>
         /\ out' = <<>>
         /\ task' = NoTask
         /\ ~ModelCallIssued'
         /\ loop'.calls = 0
         /\ ~hist'.closing
         /\ hist'.path = ""
         /\ file' = file
         /\ file' = hist'.doc0
         /\ ltm' = ltm
         /\ next_id' = next_id]_vars

\* a request carrying a user message was rejected
C21_Witness == pc = "rejected" /\ body.text # <<>> /\ turn = 1

(***************************************************************************)
(* Shape of the message list handed to the model, checked under SpecLoop.  *)
(***************************************************************************)
\* the assistant message at position i of ms is followed by one tool-role
\* message per call, in the order of the calls and carrying their ids, and
\* by no further tool-role message
CallAnswered(ms, i) ==
    LET calls == ms[i].tool_calls
        n == Len(calls)
    IN  /\ i + n <= Len(ms)
        /\ \A j \in 1..n :
             /\ ms[i + j].role = "tool"
             /\ ms[i + j].tool_call_id = calls[j].id
        /\ i + n < Len(ms) => ms[i + n + 1].role # "tool"

CallsAnswered(ms) ==
    \A i \in 1..Len(ms) : ms[i].tool_calls # <<>> => CallAnswered(ms, i)

\* the names of the calls requested in ms, in order
RECURSIVE RequestedNames(_)
RequestedNames(ms) ==
    IF ms = <<>> THEN <<>>
    ELSE [j \in 1..Len(Head(ms).tool_calls) |-> Head(ms).tool_calls[j].name]
         \o RequestedNames(Tail(ms))

\* msgs is about to be handed to a planning call, or the tool phase is over
\* and msgs is the list the primary stream is created with
AtModelCall == pc \in {"planning", "gen"}

\* C22: at every LLM call issued during a turn each assistant message with
\* tool_calls in the message list is immediately followed by exactly one
\* tool-role message per call, in the order of the calls, each carrying the
\* matching tool_call_id; the tool calls of one iteration are executed one at
\* a time in that order.
C22_ToolCallsAnswered ==
    AtModelCall =>
        /\ CallsAnswered(msgs)
        /\ (pc = "planning" =>
              [i \in 1..Len(loop.executed) |-> loop.executed[i].name]
                  = RequestedNames(msgs))

(***************************************************************************)
(* Inline interception (lines 955-1019), checked under Spec.               *)
(***************************************************************************)
\* a step in which interception fires
InterceptFires == hist'.intercepts > hist.intercepts

\* a step that leads to a run_stream call: the primary one (line 939) or the
\* second one (line 991)
PrimaryCallNext == pc # "precheck" /\ pc' = "precheck"
SecondCallNext == pc # "open2" /\ pc' = "open2"

\* a step taken while the second-pass stream is iterated
SecondPassStep == pc = "stream2"

\* C23: in any turn inline interception fires at most once and at most two
\* streaming model calls are made; once a primary token has been emitted no
\* interception fires, and the output of the second-pass stream is never
\* tested for inline tool calls.
C23_InterceptionOnce ==
    /\ [](hist.intercepts <= 1 /\ hist.second_streams <= hist.intercepts)
    /\ [][/\ InterceptFires =>
               /\ hist.intercepts = 0
               /\ CountKind(out, "token") = 0
               /\ ~gen.got_any
          /\ PrimaryCallNext => hist.path = "" /\ hist.intercepts = 0
          /\ SecondCallNext => InterceptFires
          /\ SecondPassStep =>
               /\ ~InterceptFires
               /\ msgs' = msgs
               /\ executed_steps' = executed_steps
               /\ CountKind(out', "md") = CountKind(out, "md")]_vars

\* the second-pass stream gave the inline tool-call text, which went out as
\* answer text
C23_Witness ==
    /\ hist.intercepts = 1
    /\ \E i \in 1..Len(out) : out[i] = Line("token2", InlineText)

\* the second run_stream call failed and the primary stream went on with a
\* chunk that leaves the buffered text a tool call
C23_WitnessRetry ==
    /\ hist.intercepts = 1
    /\ hist.second_streams = 0
    /\ gen.inline_intercept_used
    /\ try_parse_inline_tool(Strip(gen.buffer_first))
    /\ CountKind(out, "token") > 0

(***************************************************************************)
(* Further properties of enforce_context_budget, checked under SpecBudget. *)
(***************************************************************************)
\* the indices of the input messages that the output no longer holds
RemovedFrom(inp, outp) == {i \in 1..Len(inp) : ~Contains(outp, inp[i])}

\* the injected messages of the input that are neither pinned nor removed
RetainedInjected(inp, outp) ==
    (injected_indices(inp) \ pinned_set(inp, pin_cfg)) \ RemovedFrom(inp, outp)

\* the removed messages are one run of the injected messages, after the
\* pinned head and before the retained ones
OneRun(inp, outp) ==
    LET removed == RemovedFrom(inp, outp)
    IN  /\ removed \subseteq injected_indices(inp)
        /\ \A i \in removed, k \in removed, j \in injected_indices(inp) :
             (i < j /\ j < k) => j \in removed
        /\ \A i \in removed, j \in pinned_set(inp, pin_cfg) : j < i
        /\ \A i \in removed, j \in RetainedInjected(inp, outp) : i < j

\* C24: whenever one application of enforce_context_budget removes at least
\* one message, the removed injected_raw messages form one contiguous run in
\* injected order, lying between the pinned head and the retained recent
\* tail.
C24_RemovedIsOneRun == Trimmed => OneRun(messages, enforced)

\* C25: when enforce_context_budget trims, the non-pinned messages it
\* retains were taken while the pinned messages' combined length plus the
\* cumulative length of the messages retained stays within budget_chars:
\* whenever an injected message is retained without being pinned, the pinned
\* and the retained injected lengths together are at most budget_chars.
C25_PinnedCountTowardBudget ==
    (Trimmed /\ RetainedInjected(messages, enforced) # {}) =>
        PinnedChars
          + SumOver(RetainedInjected(messages, enforced), per_index_len(messages))
            <= budget_chars

\* sq without its p-th element
Without(sq, p) == SubSeq(sq, 1, p - 1) \o SubSeq(sq, p + 1, Len(sq))

\* sq without the elements at the indices in D, the others in their order
RECURSIVE Drop(_, _, _)
Drop(sq, D, i) ==
    IF i > Len(sq) THEN <<>>
    ELSE (IF i \in D THEN <<>> ELSE <<sq[i]>>) \o Drop(sq, D, i + 1)

\* outp is inp with the injected messages at D taken out and one marker put
\* in at position p, which tells their number and their characters and
\* stands right after the last pinned message (in front when none is pinned)
MarkerAt(inp, outp, D, p) ==
    /\ D # {}
    /\ Without(outp, p) = Drop(inp, D, 1)
    /\ outp[p].role = "system"
    /\ outp[p].gap
    /\ outp[p].cnt = Cardinality(D)
    /\ outp[p].chars = SumOver(D, [i \in 1..Len(inp) |-> inp[i].len])
    /\ IF pinned_set(inp, pin_cfg) = {} THEN p = 1
       ELSE /\ p > 1
            /\ outp[p - 1] = inp[SetMax(pinned_set(inp, pin_cfg))]

OneMarkerInserted(inp, outp) ==
    /\ Len(outp) > 0
    /\ \E p \in 1..Len(outp), D \in SUBSET injected_indices(inp) :
         MarkerAt(inp, outp, D, p)

\* C26: whenever one application of enforce_context_budget removes at least
\* one message, its output contains exactly one newly inserted system message
\* flagged compressed_gap, located immediately after the last pinned message,
\* whose text states the number of removed messages and their total character
\* count; every input message that was not removed appears in the output in
\* its original relative order.
C26_OneMarkerInserted ==
    /\ Trimmed => OneMarkerInserted(messages, enforced)
    /\ (bphase = "twice" /\ enforced2 # enforced) =>
           OneMarkerInserted(enforced, enforced2)

\* a trim with a pinned message, a message before the pinned one and two
\* removed messages
C26_Witness ==
    /\ Trimmed
    /\ pinned_set(messages, pin_cfg) # {}
    /\ SetMax(pinned_set(messages, pin_cfg)) > 1
    /\ Cardinality(RemovedFrom(messages, enforced)) = 2

\* the three cases in which the list must come back as it is
MustReturnUnchanged(inp) ==
    \/ budget_chars <= 0
    \/ \A i \in 1..Len(inp) : ~inp[i].raw
    \/ SumOver({i \in 1..Len(inp) : IsDialog(inp[i])},
               [i \in 1..Len(inp) |-> inp[i].len]) <= budget_chars

\* C27: enforce_context_budget returns the message list unchanged when
\* budget_chars <= 0, when no message is flagged injected_raw, or when the
\* total character length of all user/assistant content is at most
\* budget_chars.
C27_NoOpCases ==
    /\ (bphase # "build" /\ MustReturnUnchanged(messages)) => enforced = messages
    /\ (bphase = "twice" /\ MustReturnUnchanged(enforced)) => enforced2 = enforced

\* an application to a list with injected and system messages whose
\* user/assistant content is within a positive budget while the system
\* messages' lengths added to it are not
C27_Witness ==
    /\ bphase # "build"
    /\ budget_chars > 0
    /\ injected_indices(messages) # {}
    /\ total_chars(messages) <= budget_chars
    /\ total_chars(messages) + RunningSeed(messages) > budget_chars
    /\ enforced = messages

(***************************************************************************)
(* The candidate loop of run_hippocampus_transform (lines 263-273),        *)
(* checked under Spec.                                                     *)
(***************************************************************************)
\* the indices of the candidates that are non-blank strings, in list order
GoodIndices(cands) ==
    SelectSeq([i \in 1..Len(cands) |-> i], LAMBDA i : cands[i] = "good")

\* a record of the written list tells the id of the stored memory or the
\* error of the failed store
TellsOutcome(rec) == rec.id # 0 \/ rec.error # "<absent>"

\* C28: for every candidate that is a non-blank string consolidation calls
\* memory_store once, in list order, and the report's written list holds one
\* record per such candidate, carrying the generated id on success or the
\* error text on failure; blank and non-string candidates are skipped.
C28_OneRecordPerCandidate ==
    (task.pc = "done" /\ task.result.full) =>
        LET good == GoodIndices(task.cands)
            written == task.result.ltm_written
        IN  /\ Len(written) = Len(good)
            /\ \A i \in 1..Len(written) :
                 /\ written[i].text = CandText(good[i])
                 /\ TellsOutcome(written[i])

(***************************************************************************)
(* The backstops of chat_stream (lines 726-783), checked under SpecLoop.   *)
(***************************************************************************)
\* the step in which chat_stream goes from the return of run_tool_iteration
\* through both backstops and the closing reply
BackstopStep == pc = "backstops" /\ pc' # "backstops"

CountSteps(steps, name) ==
    Cardinality({i \in 1..Len(steps) : steps[i].name = name})

\* ms holds, from position i on, an assistant message calling tool name and
\* the tool-role message that answers it
PairAt(ms, i, name) ==
    /\ i + 1 <= Len(ms)
    /\ ms[i].role = "assistant"
    /\ Len(ms[i].tool_calls) = 1
    /\ ms[i].tool_calls[1].name = name
    /\ ms[i + 1].role = "tool"
    /\ ms[i + 1].tool_call_id = ms[i].tool_calls[1].id

\* the character limit the setting c stands for
ClaimedQueryChars(c) == IF c.set /\ c.val > 0 THEN c.val ELSE DefaultQueryChars

RecallDue ==
    /\ hist'.force_recall
    /\ ~HasStep(executed_steps, "memory_recall")
    /\ Strip(LatestUser(msgs)) # <<>>

\* C29: after the tool loop, if the always-recall policy is enabled, no
\* executed step is a memory_recall and the latest user message is non-empty,
\* exactly one synthetic recall is issued whose query is the latest user
\* message truncated to the configured character limit, and its step and
\* correlated assistant/tool messages are appended; if a recall already
\* occurred or the policy is disabled, no synthetic recall is issued.
C29_RecallBackstop ==
    [][BackstopStep =>
         /\ RecallDue =>
              /\ CountSteps(executed_steps', "memory_recall (auto)") = 1
              /\ Len(executed_steps') > Len(executed_steps)
              /\ IsAuto(executed_steps'[Len(executed_steps) + 1])
              /\ PairAt(msgs', Len(msgs) + 1, "memory_recall")
              /\ hist'.auto_query =
                     FirstN(Strip(LatestUser(msgs)), ClaimedQueryChars(hist'.q_max))
         /\ (~hist'.force_recall \/ HasStep(executed_steps, "memory_recall")) =>
              /\ CountSteps(executed_steps', "memory_recall (auto)") = 0
              /\ ~PairAt(msgs', Len(msgs) + 1, "memory_recall")]_vars

StoreDue ==
    /\ ~HasStep(executed_steps, "memory_store")
    /\ HasKeyword(LatestUser(msgs))

\* the positions of msgs' at which the backstops' messages start: the recall
\* backstop appends two messages when it acts
StorePos == Len(msgs) + 1 + 2 * CountSteps(executed_steps', "memory_recall (auto)")

\* C30: after the tool loop and the recall backstop, if no executed step is a
\* memory_store and the latest user message matches the keyword heuristic,
\* exactly one synthetic store is issued with that message truncated to the
\* configured length; if a store already occurred or the message does not
\* match, no synthetic store is issued and the long-term store is not
\* written by the backstop.
C30_StoreBackstop ==
    [][BackstopStep =>
         IF StoreDue
         THEN /\ CountSteps(executed_steps', "memory_store") = 1
              /\ executed_steps'[Len(executed_steps')].name = "memory_store"
              /\ PairAt(msgs', StorePos, "memory_store")
              /\ Len(ltm') <= Len(ltm) + 1
              /\ Len(ltm') = Len(ltm) + 1 =>
                     ltm'[Len(ltm')].text =
                         FirstN(Strip(LatestUser(msgs)), StoreChars)
              /\ Len(ltm') = Len(ltm) => executed_steps'[Len(executed_steps')].error
         ELSE /\ CountSteps(executed_steps', "memory_store")
                    = CountSteps(executed_steps, "memory_store")
              /\ ~PairAt(msgs', StorePos, "memory_store")
              /\ ltm' = ltm]_vars

\* the store backstop wrote a message longer than the cut, cut
C30_Witness ==
    /\ pc = "gen"
    /\ Len(body.text) > StoreChars
    /\ Len(hist.auto_store) = StoreChars
    /\ ltm # <<>>
    /\ ltm[Len(ltm)].text = hist.auto_store

(***************************************************************************)
(* The forced closing reply (lines 784-814), checked under SpecLoop.       *)
(***************************************************************************)
IsClosingInstruction(m) ==
    m.role = "system" /\ m.content = <<"closing_instruction">>

\* the positions of ms that hold the instruction sent with the closing call
ClosingCalls(ms) == {i \in 1..Len(ms) : IsClosingInstruction(ms[i])}

\* a tool result, or an assistant message without text
NeedsClosing(m) ==
    \/ m.role = "tool"
    \/ m.role = "assistant" /\ Strip(m.content) = <<>>

\* C31: after the tool loop and the backstops one more model call without
\* tools is made if and only if the trailing message is a tool result or an
\* assistant message with empty content; at most one such call is made per
\* turn, and when it returns non-empty text that text is appended as the
\* trailing assistant message.
C31_ClosingReply ==
    /\ [](Cardinality(ClosingCalls(msgs)) <= 1)
    /\ [][BackstopStep =>
            /\ ClosingCalls(msgs) = {}
            /\ \A p \in ClosingCalls(msgs') :
                 /\ p > 1
                 /\ NeedsClosing(msgs'[p - 1])
                 /\ IF hist'.closing_text # <<>>
                    THEN /\ Len(msgs') = p + 1
                         /\ msgs'[p + 1] = PMsg("assistant", hist'.closing_text)
                    ELSE Len(msgs') = p
            /\ ClosingCalls(msgs') = {} =>
                 /\ hist'.closing_text = <<>>
                 /\ msgs' # <<>> => ~NeedsClosing(msgs'[Len(msgs')])]_vars

\* the closing call was made after an assistant message without text and
\* its reply is the trailing message
C31_Witness ==
    /\ pc = "gen"
    /\ \E p \in ClosingCalls(msgs) :
         /\ msgs[p - 1].role = "assistant"
         /\ msgs[p - 1].tool_calls = <<>>
         /\ Len(msgs) = p + 1
         /\ msgs[p + 1] = PMsg("assistant", <<"w">>)

(***************************************************************************)
(* A planning call that raises (lines 430-442), checked under SpecLoop.    *)
(***************************************************************************)
\* the planning call of this step raised: a call was made and no iteration
\* was completed
PlanningRaises ==
    /\ pc = "planning"
    /\ loop'.calls = loop.calls + 1
    /\ loop'.idx = loop.idx

\* C32: when a tool-planning model call raises in some iteration,
\* run_tool_iteration stops iterating without raising and returns the
\* messages and steps accumulated in the earlier iterations; the turn then
\* continues with the heuristic backstops and the primary stream.
C32_PlanningFailure ==
    /\ [][PlanningRaises =>
            /\ pc' = "backstops"
            /\ ~loop'.raised
            /\ msgs' = msgs
            /\ executed_steps' = loop.executed
            /\ ltm' = ltm]_vars
    /\ [][BackstopStep =>
            /\ pc' = "gen"
            /\ IsPrefix(msgs, msgs')
            /\ IsPrefix(executed_steps, executed_steps')]_vars

\* the second planning call raised after the first one had a tool executed
C32_Witness ==
    /\ pc = "backstops"
    /\ loop.calls = 2
    /\ loop.idx = 1
    /\ Len(executed_steps) = 1
    /\ msgs[Len(msgs)].role = "tool"

(***************************************************************************)
(* Consolidation output that does not parse (lines 245-285), under Spec.   *)
(***************************************************************************)
\* the consolidation model call returns in this step and its content has
\* neither shape, or json.loads fails on it
ConsolidationUnparsed ==
    /\ task.pc = "llm"
    /\ task'.pc = "done"
    /\ hist'.hip_unparsed # ""

\* C33: when the consolidation model output is neither a fenced JSON block
\* nor a bare top-level object, or fails to parse, consolidation yields no
\* candidates (ltm_written == [], ltm_candidate_count == 0), leaves
\* background at its previous value, still persists the user-message append,
\* and returns an enabled report without an error field.
C33_UnparsedOutput ==
    [][ConsolidationUnparsed =>
         /\ task'.result.set
         /\ task'.result.enabled
         /\ task'.result.error = "<absent>"
         /\ task'.result.ltm_written = <<>>
         /\ task'.result.ltm_candidate_count = 0
         /\ task'.result.background = file.background
         /\ file'.background = file.background
         /\ ltm' = ltm
         /\ file'.raw_history # <<>>
         /\ file'.raw_history[Len(file'.raw_history)] = Entry("user", body.text)]_vars

\* a fenced block that failed to parse, on a session that had a background
C33_Witness ==
    /\ hist.hip_unparsed = "fenced"
    /\ task.pc = "done"
    /\ task.result.full
    /\ task.result.background = BgChar(0)
    /\ UserPersisted

(***************************************************************************)
(* Consolidation with compression switched off (lines 197-227), under Spec.*)
(***************************************************************************)
\* run_hippocampus_transform starts in this step under a configuration that
\* has enable_compression false or no compression_prompt
CompressionOffStart ==
    /\ task.pc = "created"
    /\ task'.pc # "created"
    /\ hist'.compression_off

\* C34: when compression is disabled by configuration (enable_compression
\* false), or no custom compression prompt is configured, the consolidation
\* task appends the user message, saves the document, makes no model call
\* and no long-term store write, leaves background unchanged, and returns a
\* report with ltm_written == [] and ltm_candidate_count == 0.
C34_CompressionOff ==
    [][CompressionOffStart =>
         /\ task'.pc = "done"
         /\ task'.result.full
         /\ task'.result.ltm_written = <<>>
         /\ task'.result.ltm_candidate_count = 0
         /\ file' = [file EXCEPT
                       !.raw_history = Append(@, Entry("user", body.text))]
         /\ ltm' = ltm]_vars

\* the same for the configurations under which the hippocampus client can be
\* built: what lines 202-227 do once line 198 has returned
C34_WithClient ==
    [][CompressionOffStart /\ task'.result # ErrorReport(FALSE, "<absent>") =>
         /\ task'.pc = "done"
         /\ task'.result.full
         /\ task'.result.ltm_written = <<>>
         /\ task'.result.ltm_candidate_count = 0
         /\ file' = [file EXCEPT
                       !.raw_history = Append(@, Entry("user", body.text))]
         /\ ltm' = ltm]_vars

(***************************************************************************)
(* The long-term store only grows (lines 373-400 and their callers).       *)
(***************************************************************************)
StoredIds(store) == {store[i].id : i \in 1..Len(store)}

\* the memory_store steps of a step list that returned without an error
RECURSIVE CountOkStores(_)
CountOkStores(steps) ==
    IF steps = <<>> THEN 0
    ELSE (IF Head(steps).name = "memory_store" /\ ~Head(steps).error THEN 1 ELSE 0)
         + CountOkStores(Tail(steps))

\* the candidates consolidation reports as written under an id
RECURSIVE CountWritten(_)
CountWritten(written) ==
    IF written = <<>> THEN 0
    ELSE (IF Head(written).id # 0 THEN 1 ELSE 0) + CountWritten(Tail(written))

\* the stores that report success in this step: by the tool loop, by the
\* backstops and the inline interception, by consolidation, and by a direct
\* call of tool_memory_store
NewStores ==
    (IF pc = "planning"
     THEN CountOkStores(loop'.executed) - CountOkStores(loop.executed)
     ELSE IF ~RequestOver
          THEN CountOkStores(executed_steps') - CountOkStores(executed_steps)
          ELSE 0)
    + (IF task.pc = "embed"
       THEN CountWritten(task'.written) - CountWritten(task.written) ELSE 0)
    + (IF probe.op = "none" /\ probe'.op = "stored" /\ ~probe'.raised THEN 1 ELSE 0)

\* C35: no operation of the core (memory_store, memory_recall, consolidation
\* promotion, tool loop, backstops, inline interception) ever removes or
\* changes an existing long-term entry: the set of stored (id, text) pairs
\* only grows, each successful store adds exactly one entry under an id not
\* used before, and memory_recall leaves the store unchanged.
C35_StoreOnlyGrows ==
    /\ [][/\ IsPrefix(ltm, ltm')
          /\ Len(ltm') = Len(ltm) + NewStores
          /\ \A i \in (Len(ltm) + 1)..Len(ltm') : ltm'[i].id \notin StoredIds(ltm)
          /\ probe'.op = "recalled" => ltm' = ltm]_vars
    /\ [](Cardinality(StoredIds(ltm)) = Len(ltm))

\* consolidation and the store backstop each added an entry
C35_Witness ==
    /\ Len(ltm) = 2
    /\ CountWritten(task.written) = 1
    /\ CountOkStores(executed_steps) = 1

(***************************************************************************)
(* Failures of the session document (lines 142-159), under SpecDisk.       *)
(***************************************************************************)
\* the text of the units of lines whose kind is in kinds
RECURSIVE TokenText(_, _)
TokenText(lines, kinds) ==
    IF lines = <<>> THEN <<>>
    ELSE (IF Head(lines).kind \in kinds THEN Head(lines).text ELSE <<>>)
         \o TokenText(Tail(lines), kinds)

\* the save of lines 1026-1035 has raised in the current request
AppendFailed ==
    /\ AppendSaveRaises
    /\ hist.path = "main"
    /\ pc \in {"wait_main", "finalize", "done", "crashed"}
    /\ Strip(gen.assistant_output_buf) # <<>>

\* the stream is over and its last two units are the summary and [DONE]
EndsWithSummaryAndDone ==
    /\ pc = "done"
    /\ Len(out) >= 2
    /\ out[Len(out) - 1].kind = "summary"
    /\ out[Len(out)].kind = "DONE"

\* chat_stream gets past lines 539-543 in this step
RequestAccepted == pc = "idle" /\ pc' \notin {"idle", "rejected"}

C36_WitnessLoad ==
    /\ hist.disk = "load_fail"
    /\ hist.doc0 # DefaultDoc
    /\ EndsWithSummaryAndDone
    /\ Answered
    /\ file.raw_history = <<Entry("user", body.text)>>

\* the save of the assistant append raised
C36_WitnessAppend == AppendFailed /\ EndsWithSummaryAndDone /\ file = hist.doc0

(***************************************************************************)
(* /admin/reload (lines 1112-1128), under SpecReload.                      *)
(***************************************************************************)
\* what the cached function c returned since the reload was built from the
\* current contents of config.json, or it has not returned anything
ServesCurrent(c) == probe.served[c] \in {Unbuilt, probe.config}

\* C37: after /admin/reload returns status ok, the next turn uses the current
\* contents of the configuration for every cached configuration-derived
\* component: the config itself, chat client, embedding client, embedding
\* dimension, vector collection, and the consolidation (hippocampus) client
\* and settings; no component keeps serving a value built from the previous
\* configuration.
C37_ReloadRefreshesAll ==
    probe.reloaded => \A c \in Components : ServesCurrent(c)

\* the same for the five caches that lines 1119-1123 clear
C37_ClearedRefreshed ==
    probe.reloaded => \A c \in ClearedByReload : ServesCurrent(c)

=============================================================================
